---- MODULE Spec2Model ----
(***************************************************************************)
(* The catalog lookup of brainio (src/brainio/lookup.py): named catalogs   *)
(* of artifact records, their lazily computed and cached merged view, the  *)
(* lookups over it and append, which adds a record to one catalog and      *)
(* rewrites that catalog's backing file.                                   *)
(*                                                                         *)
(* A data frame is a sequence of rows, a row a function from column names  *)
(* to values.  None is the string "None"; the cache _concat_catalogs is a  *)
(* sequence that is empty for None and holds the frame otherwise.  The     *)
(* dict _catalogs is a sequence of (key, value) entries in insertion       *)
(* order, empty before the first load.  An identifier is represented by    *)
(* its rank in the order of Python strings.  A location is the sequence    *)
(* of the pieces of the f-string that builds it, so that endswith looks    *)
(* at its last piece.                                                      *)
(*                                                                         *)
(* The second part is the assembly of brainio.assemblies as the tests of   *)
(* src/tests/test_assemblies.py use it: a labeled array whose dimensions   *)
(* carry several coordinates that are gathered into the levels of one      *)
(* composite key, with selection by a level, grouping by several           *)
(* coordinates and application of a function to every group.               *)
(***************************************************************************)
EXTENDS Integers, Sequences, FiniteSets

VARIABLES
    catalogs,         \* _catalogs: the dict of the loaded catalogs
    concat_catalogs,  \* _concat_catalogs: the cached merged view
    files,            \* the backing file of every catalog: the rows written
    ret,              \* what the last call did: its arguments and its outcome
    th,               \* the threads: where each is in its call, and its locals
    assy,             \* the assembly a caller holds: da = gather_indexes(da)
    res               \* what the last operation on the assembly did

vars == <<catalogs, concat_catalogs, files, ret, th, assy, res>>

----------------------------------------------------------------------------
(* Constants of the program *)

LOOKUP_SOURCE == "lookup_source"
TYPE_ASSEMBLY == "assembly"
TYPE_STIMULUS_SET == "stimulus_set"
NoneValue == "None"

(* Bounds of the model *)

\* the rows all catalogs hold together never exceed this
MaxRows == 3

\* the names of the registered entry points, in their order
CatalogNames == <<"A", "B">>
\* a name that is no entry point
UnknownCatalog == "X"

Identifiers == {1, 2}
\* the artifacts that are registered: class, key in the bucket, hash
Table == [cls |-> "cls", s3_key |-> <<"k", ".csv">>, sha1 |-> "h1"]
Archive == [cls |-> NoneValue, s3_key |-> <<"k", ".zip">>, sha1 |-> "h1"]
\* an archive that differs from Archive in its hash alone
OtherArchive == [cls |-> NoneValue, s3_key |-> <<"k", ".zip">>, sha1 |-> "h2"]
\* a table that differs from Table in its hash alone
OtherTable == [cls |-> "cls", s3_key |-> <<"k", ".csv">>, sha1 |-> "h2"]
\* a table without a class: neither representation of a stimulus set
PlainTable == [cls |-> NoneValue, s3_key |-> <<"k", ".csv">>, sha1 |-> "h1"]

Registration(identifier, lookup_type, a) ==
    [identifier |-> identifier, lookup_type |-> lookup_type, artifact |-> a]

\* what append is called with: every artifact as a stimulus set of the first
\* identifier, two artifacts as its assembly, and one assembly of the second
\* identifier
Registrations ==
    {Registration(1, "stimulus_set", a) : a \in {Table, Archive, OtherTable, OtherArchive, PlainTable}}
    \cup {Registration(1, "assembly", a) : a \in {Table, Archive}}
    \cup {Registration(2, "assembly", Table)}

\* a lookup type that append does not know
UnknownType == "model"

\* the columns an entry point's loader returns
LoaderColumns ==
    {"identifier", "lookup_type", "class", "location_type", "location",
     "sha1", "stimulus_set_identifier"}

\* the columns whose value may be missing (None, NaN)
NullableColumns == {"class", "stimulus_set_identifier"}

----------------------------------------------------------------------------
(* Helpers on sequences *)

Range(s) == {s[i] : i \in DOMAIN s}

RECURSIVE SelectRows(_, _)
\* frame[mask]: the rows whose index is in keep, in order
SelectRows(rows, keep) ==
    IF rows = <<>> THEN <<>>
    ELSE LET n == Len(rows)
             front == SelectRows(SubSeq(rows, 1, n - 1), keep)
         IN IF n \in keep THEN Append(front, rows[n]) ELSE front

Project(row, cols) == [c \in cols |-> row[c]]

FrameColumns(rows) == IF rows = <<>> THEN {} ELSE DOMAIN rows[1]

RECURSIVE DropDuplicatesFrom(_, _, _)
DropDuplicatesFrom(rows, cols, seen) ==
    IF rows = <<>> THEN <<>>
    ELSE LET p == Project(Head(rows), cols)
         IN IF p \in seen
            THEN DropDuplicatesFrom(Tail(rows), cols, seen)
            ELSE <<Head(rows)>> \o DropDuplicatesFrom(Tail(rows), cols, seen \cup {p})

\* DataFrame.drop_duplicates(subset=cols): the first row of every group of
\* rows that agree on cols
drop_duplicates(rows, cols) == DropDuplicatesFrom(rows, cols, {})

EndsWith(location, suffix) ==
    Len(location) > 0 /\ location[Len(location)] = suffix

RECURSIVE SortedSeq(_)
\* sorted(list(S)) for a set of identifiers
SortedSeq(S) ==
    IF S = {} THEN <<>>
    ELSE LET m == CHOOSE x \in S : \A y \in S : x <= y
         IN <<m>> \o SortedSeq(S \ {m})

----------------------------------------------------------------------------
(* The dict _catalogs: entries [key, value] in insertion order *)

DictKeys(d) == {d[i].key : i \in DOMAIN d}

DictGet(d, k) == d[CHOOSE i \in DOMAIN d : d[i].key = k].value

\* d[k] = v: in place for a key the dict has, at the end for a new key
DictSet(d, k, v) ==
    IF k \in DictKeys(d)
    THEN [i \in DOMAIN d |-> IF d[i].key = k THEN [key |-> k, value |-> v] ELSE d[i]]
    ELSE Append(d, [key |-> k, value |-> v])

RECURSIVE ConcatValues(_)
ConcatValues(d) ==
    IF d = <<>> THEN <<>> ELSE Head(d).value \o ConcatValues(Tail(d))

\* pd.concat(catalogs.values(), ignore_index=True)
concat(d) == ConcatValues(d)

----------------------------------------------------------------------------
(* Loading *)

\* a cell as the loader reads it: the empty field is a missing value
ReadCell(c, v) == IF c \in NullableColumns /\ v = "" THEN NoneValue ELSE v

\* the table an entry point's loader returns: the one of the backing file
read_csv(table) ==
    [i \in DOMAIN table |-> [c \in DOMAIN table[i] |-> ReadCell(c, table[i][c])]]

\* df = entry_point.load()(); df[LOOKUP_SOURCE] = name
load_lookup(name, table) ==
    LET df == read_csv(table)
    IN  [i \in DOMAIN df |->
            [c \in (DOMAIN df[i]) \cup {LOOKUP_SOURCE} |->
                IF c = LOOKUP_SOURCE THEN name ELSE df[i][c]]]

get_lookups(fs) ==
    [i \in DOMAIN CatalogNames |->
        [key |-> CatalogNames[i],
         value |-> load_lookup(CatalogNames[i], fs[CatalogNames[i]])]]

\* get_catalogs(): loads when the dict is empty; the value is the dict after it
get_catalogs(cats, fs) == IF cats = <<>> THEN get_lookups(fs) ELSE cats

\* data(): the dict and the cache after the call; the call returns the
\* frame the cache then holds
DataCatalogs(cc, cats, fs) == IF cc = <<>> THEN get_catalogs(cats, fs) ELSE cats

DataCache(cc, cats, fs) ==
    IF cc = <<>> THEN <<concat(get_catalogs(cats, fs))>> ELSE cc

----------------------------------------------------------------------------
(* The lookups, on the frame data() returns *)

Outcome(o, v) == [outcome |-> o, value |-> v]

is_csv_lookup(data_row) ==
    /\ data_row["lookup_type"] = TYPE_STIMULUS_SET
    /\ EndsWith(data_row["location"], ".csv")
    /\ data_row["class"] # NoneValue

is_zip_lookup(data_row) ==
    /\ data_row["lookup_type"] = TYPE_STIMULUS_SET
    /\ EndsWith(data_row["location"], ".zip")
    /\ data_row["class"] = NoneValue

\* a bug: the rows are compared on lookup_source too
DedupColumns_all(lookup) == FrameColumns(lookup)

\* cols = [n for n in lookup.columns if n != LOOKUP_SOURCE]
DedupColumns(lookup) == FrameColumns(lookup) \ {LOOKUP_SOURCE}

\* frame[mask] for a boolean mask that is a series over the index 1..n: a
\* mask that lacks a row of the frame cannot be aligned with it, and the
\* subscript raises IndexingError
Unalignable(frame, n) == n < Len(frame)

Max(a, b) == IF a >= b THEN a ELSE b

\* data()[(data()['identifier'] == identifier) & (data()['lookup_type'] == t)]
\* with the frames the three calls of data() returned, the subscripted one
\* first: the two comparisons are aligned on the union of their indexes,
\* and a row that one of them lacks compares false
MaskedLookup(f1, f2, f3, identifier, t) ==
    SelectRows(f1, {i \in DOMAIN f1 :
                      /\ i \in DOMAIN f2 /\ f2[i]["identifier"] = identifier
                      /\ i \in DOMAIN f3 /\ f3[i]["lookup_type"] = t})

\* a bug: the rows of the identifier, of whatever lookup type
LookupRows_anykind(d, identifier, t) ==
    SelectRows(d, {i \in DOMAIN d : d[i]["identifier"] = identifier})

LookupRows(d, identifier, t) == MaskedLookup(d, d, d, identifier, t)

\* data()[data()['lookup_type'] == t]
MaskedType(f1, f2, t) ==
    SelectRows(f1, {i \in DOMAIN f1 : i \in DOMAIN f2 /\ f2[i]["lookup_type"] = t})

\* a bug: the identifiers of the rows as they come, list(rows['identifier'])
SortedIdentifiers_list(rows) == [i \in DOMAIN rows |-> rows[i]["identifier"]]

\* sorted(list(set(rows['identifier'])))
SortedIdentifiers(rows) == SortedSeq({rows[i]["identifier"] : i \in DOMAIN rows})

list_stimulus_sets(d) == SortedIdentifiers(MaskedType(d, d, TYPE_STIMULUS_SET))

list_assemblies(d) == SortedIdentifiers(MaskedType(d, d, TYPE_ASSEMBLY))

FilterFunc(label, row) ==
    IF label = "CSV" THEN is_csv_lookup(row) ELSE is_zip_lookup(row)

\* a bug: a representation that is not registered is returned as absent
lookup_stimulus_set_filtered_absent(lookup, label) ==
    LET cols == DedupColumns(lookup)
        filtered_rows ==
            drop_duplicates(
                SelectRows(lookup, {i \in DOMAIN lookup : FilterFunc(label, lookup[i])}),
                cols)
    IN  IF Len(filtered_rows) = 0 THEN Outcome("ok", <<>>)
        ELSE IF Len(filtered_rows) > 1 THEN Outcome("RuntimeError", <<>>)
        ELSE Outcome("ok", <<filtered_rows[1]>>)

\* a bug: of several distinct rows of a representation the first is returned
lookup_stimulus_set_filtered_first(lookup, label) ==
    LET cols == DedupColumns(lookup)
        filtered_rows ==
            drop_duplicates(
                SelectRows(lookup, {i \in DOMAIN lookup : FilterFunc(label, lookup[i])}),
                cols)
    IN  IF Len(filtered_rows) = 0 THEN Outcome("StimulusSetLookupError", <<>>)
        ELSE Outcome("ok", <<filtered_rows[1]>>)

lookup_stimulus_set_filtered(lookup, label) ==
    LET cols == DedupColumns(lookup)
        filtered_rows ==
            drop_duplicates(
                SelectRows(lookup, {i \in DOMAIN lookup : FilterFunc(label, lookup[i])}),
                cols)
    IN  IF Len(filtered_rows) = 0 THEN Outcome("StimulusSetLookupError", <<>>)
        ELSE IF Len(filtered_rows) > 1 THEN Outcome("RuntimeError", <<>>)
        ELSE Outcome("ok", <<filtered_rows[1]>>)

\* a bug: the pair is returned as (archive, table)
lookup_stimulus_set_swapped(lookup) ==
    LET csv_lookup == lookup_stimulus_set_filtered(lookup, "CSV")
        zip_lookup == lookup_stimulus_set_filtered(lookup, "zip")
    IN  IF Len(lookup) = 0 THEN Outcome("StimulusSetLookupError", <<>>)
        ELSE IF csv_lookup.outcome # "ok" THEN csv_lookup
        ELSE IF zip_lookup.outcome # "ok" THEN zip_lookup
        ELSE Outcome("ok", zip_lookup.value \o csv_lookup.value)

\* lookup_stimulus_set, from the rows of the identifier on
lookup_stimulus_set_rows(lookup) ==
    LET csv_lookup == lookup_stimulus_set_filtered(lookup, "CSV")
        zip_lookup == lookup_stimulus_set_filtered(lookup, "zip")
    IN  IF Len(lookup) = 0 THEN Outcome("StimulusSetLookupError", <<>>)
        ELSE IF csv_lookup.outcome # "ok" THEN csv_lookup
        ELSE IF zip_lookup.outcome # "ok" THEN zip_lookup
        ELSE Outcome("ok", csv_lookup.value \o zip_lookup.value)

lookup_stimulus_set(d, identifier) ==
    lookup_stimulus_set_rows(LookupRows(d, identifier, TYPE_STIMULUS_SET))

\* lookup_assembly, from the rows of the identifier on
lookup_assembly_rows(lookup) ==
    LET cols == DedupColumns(lookup)
        de_dupe == drop_duplicates(lookup, cols)
    IN  IF Len(lookup) = 0 THEN Outcome("AssemblyLookupError", <<>>)
        ELSE IF Len(de_dupe) > 1 THEN Outcome("RuntimeError", <<>>)
        ELSE Outcome("ok", <<de_dupe[1]>>)

lookup_assembly(d, identifier) ==
    lookup_assembly_rows(LookupRows(d, identifier, TYPE_ASSEMBLY))

----------------------------------------------------------------------------
(* append *)

\* f"https://{bucket_name}.s3.amazonaws.com/{s3_key}"
Location(bucket_name, s3_key) ==
    <<"https://", bucket_name, ".s3.amazonaws.com/">> \o s3_key

object_lookup(catalog_name, object_identifier, cls, lookup_type, bucket_name, sha1, s3_key) ==
    [identifier |-> object_identifier,
     lookup_type |-> lookup_type,
     class |-> cls,
     location_type |-> "S3",
     location |-> Location(bucket_name, s3_key),
     sha1 |-> sha1,
     stimulus_set_identifier |-> NoneValue,
     lookup_source |-> catalog_name]

\* a bug: the second record of a stimulus set is accepted when it is a table
\* or an archive, whatever the record is that the catalog holds
AppendCheck_candidate(catalog, obj) ==
    LET duplicates == LookupRows(catalog, obj["identifier"], obj["lookup_type"])
    IN  IF obj["lookup_type"] \notin {TYPE_ASSEMBLY, TYPE_STIMULUS_SET}
        THEN "AssertionError"
        ELSE IF Len(duplicates) = 0 THEN "ok"
        ELSE IF obj["lookup_type"] = TYPE_ASSEMBLY THEN "ValueError"
        ELSE IF /\ Len(duplicates) = 1
                /\ duplicates[1]["identifier"] = obj["identifier"]
                /\ is_zip_lookup(obj) \/ is_csv_lookup(obj)
        THEN "ok"
        ELSE "ValueError"

\* the check of duplicates: the exception it ends with, or "ok"
AppendCheck(catalog, obj) ==
    LET duplicates == LookupRows(catalog, obj["identifier"], obj["lookup_type"])
    IN  IF obj["lookup_type"] \notin {TYPE_ASSEMBLY, TYPE_STIMULUS_SET}
        THEN "AssertionError"
        ELSE IF Len(duplicates) = 0 THEN "ok"
        ELSE IF obj["lookup_type"] = TYPE_ASSEMBLY THEN "ValueError"
        ELSE IF /\ Len(duplicates) = 1
                /\ duplicates[1]["identifier"] = obj["identifier"]
                /\ \/ is_csv_lookup(duplicates[1]) /\ is_zip_lookup(obj)
                   \/ is_zip_lookup(duplicates[1]) /\ is_csv_lookup(obj)
        THEN "ok"
        ELSE "ValueError"

\* a bug: the new row is put before the rows of the catalog
AppendRow_front(catalog, obj) == <<obj>> \o catalog

\* catalog.append(add_lookup)
AppendRow(catalog, obj) == Append(catalog, obj)

\* a cell as to_csv writes it: a missing value is written as the empty field
CsvCell(c, v) == IF c \in NullableColumns /\ v = NoneValue THEN "" ELSE v

\* catalog.to_csv(catalog_path, index=False): every column of every row
to_csv(catalog) ==
    [i \in DOMAIN catalog |-> [c \in DOMAIN catalog[i] |-> CsvCell(c, catalog[i][c])]]

\* _catalogs[catalog_name] = catalog
AppendCatalogs(cats, catalog_name, catalog) == DictSet(cats, catalog_name, catalog)

\* a bug: the cache is kept
AppendCache_keep(cc) == cc

\* _concat_catalogs = None
AppendCache(cc) == <<>>

----------------------------------------------------------------------------
(* The state after the module is imported, and the calls, one at a time *)

BucketName == "b"

\* the table every entry point holds at the start: empty, or the archive
\* record of a stimulus set
SeedRow ==
    [identifier |-> 1, lookup_type |-> TYPE_STIMULUS_SET, class |-> "",
     location_type |-> "S3", location |-> Location(BucketName, <<"k", ".zip">>),
     sha1 |-> "h1", stimulus_set_identifier |-> ""]

SeedTables == {<<>>, <<SeedRow>>}

NoCall == [op |-> "none", catalog |-> NoneValue, identifier |-> 0,
           outcome |-> "none", value |-> <<>>]

Call(op, catalog_name, identifier, outcome, value) ==
    [op |-> op, catalog |-> catalog_name, identifier |-> identifier,
     outcome |-> outcome, value |-> value]

TotalRows(fs) ==
    LET RECURSIVE Sum(_)
        Sum(names) == IF names = <<>> THEN 0
                      ELSE Len(fs[Head(names)]) + Sum(Tail(names))
    IN  Sum(CatalogNames)

\* no assembly is held, and no operation on one was called
NoAssembly == <<>>

NoResult ==
    [op |-> "none", names |-> <<>>, arg |-> "", outcome |-> "none",
     value |-> <<>>, other |-> <<>>]

\* the threads of the process
Threads == {1, 2}

\* a thread that is in no call.  catalogs is the local variable of data() and
\* of append that holds the dict get_catalogs() returned: the dict the global
\* names (alias), or a dict that the global named before it was loaded anew
Idle ==
    [pc |-> "idle", op |-> "none", catalog |-> NoneValue, identifier |-> 0,
     obj |-> <<>>, after |-> "none", alias |-> TRUE, dict |-> <<>>,
     frame |-> <<>>, frames |-> <<>>, outcome |-> "none", value |-> <<>>,
     computed |-> FALSE, calls |-> 0, appends |-> 0]

Init ==
    /\ catalogs = <<>>
    /\ concat_catalogs = <<>>
    /\ \E table \in SeedTables : files = [c \in Range(CatalogNames) |-> table]
    /\ ret = NoCall
    /\ th = [t \in Threads |-> Idle]
    /\ assy = NoAssembly
    /\ res = NoResult

\* a read: data() fills the cache, and the call's value is computed on the
\* frame that data() returns
Read(op, identifier, result) ==
    /\ catalogs' = DataCatalogs(concat_catalogs, catalogs, files)
    /\ concat_catalogs' = DataCache(concat_catalogs, catalogs, files)
    /\ UNCHANGED <<files, th, assy, res>>
    /\ ret' = Call(op, NoneValue, identifier, result.outcome, result.value)

DataFrame == DataCache(concat_catalogs, catalogs, files)[1]

ListStimulusSets ==
    Read("list_stimulus_sets", 0, Outcome("ok", list_stimulus_sets(DataFrame)))

ListAssemblies ==
    Read("list_assemblies", 0, Outcome("ok", list_assemblies(DataFrame)))

LookupStimulusSet ==
    \E identifier \in Identifiers :
        Read("lookup_stimulus_set", identifier, lookup_stimulus_set(DataFrame, identifier))

LookupAssembly ==
    \E identifier \in Identifiers :
        Read("lookup_assembly", identifier, lookup_assembly(DataFrame, identifier))

\* a bug: the cache is invalidated before the checks
AppendRaises_invalidate(catalog_name, object_identifier, error) ==
    /\ catalogs' = get_catalogs(catalogs, files)
    /\ concat_catalogs' = <<>>
    /\ UNCHANGED <<files, th, assy, res>>
    /\ ret' = Call("append", catalog_name, 0, error, <<>>)

\* append raises before it changes anything but the lazily loaded dict
AppendRaises(catalog_name, object_identifier, error) ==
    /\ catalogs' = get_catalogs(catalogs, files)
    /\ UNCHANGED <<concat_catalogs, files, th, assy, res>>
    /\ ret' = Call("append", catalog_name, 0, error, <<>>)

AppendCall(catalog_name, object_identifier, cls, lookup_type, sha1, s3_key) ==
    LET cats == get_catalogs(catalogs, files)
    IN  IF catalog_name \notin DictKeys(cats)
        THEN AppendRaises(catalog_name, object_identifier, "KeyError")
        ELSE
        LET catalog == DictGet(cats, catalog_name)
            obj == object_lookup(catalog_name, object_identifier, cls, lookup_type,
                                 BucketName, sha1, s3_key)
            check == AppendCheck(catalog, obj)
            appended == AppendRow(catalog, obj)
        IN  IF check # "ok"
            THEN AppendRaises(catalog_name, object_identifier, check)
            ELSE /\ TotalRows(files) < MaxRows
                 /\ files' = [files EXCEPT ![catalog_name] = to_csv(appended)]
                 /\ catalogs' = AppendCatalogs(cats, catalog_name, appended)
                 /\ concat_catalogs' = AppendCache(concat_catalogs)
                 /\ ret' = Call("append", catalog_name, object_identifier, "ok", <<obj>>)
                 /\ UNCHANGED <<th, assy, res>>

AppendAction ==
    \E catalog_name \in Range(CatalogNames), r \in Registrations :
        AppendCall(catalog_name, r.identifier, r.artifact.cls, r.lookup_type,
                   r.artifact.sha1, r.artifact.s3_key)

\* append to a catalog that is no entry point
AppendUnknownCatalog ==
    AppendCall(UnknownCatalog, 1, Table.cls, TYPE_ASSEMBLY, Table.sha1, Table.s3_key)

\* append of a lookup type other than assembly and stimulus_set
AppendUnknownType ==
    \E catalog_name \in Range(CatalogNames) :
        AppendCall(catalog_name, 1, Table.cls, UnknownType, Table.sha1, Table.s3_key)

Next ==
    \/ ListStimulusSets
    \/ ListAssemblies
    \/ LookupStimulusSet
    \/ LookupAssembly
    \/ AppendAction
    \/ AppendUnknownCatalog
    \/ AppendUnknownType

Spec == Init /\ [][Next]_vars

----------------------------------------------------------------------------
(* The calls of several threads, a statement at a time.  Between two steps
   of a thread any other thread may take steps. *)

\* the calls all threads start together never exceed this
MaxCalls == 2

SeedAssembly ==
    [identifier |-> 1, lookup_type |-> TYPE_ASSEMBLY, class |-> "cls",
     location_type |-> "S3", location |-> Location(BucketName, <<"k", ".csv">>),
     sha1 |-> "h1", stimulus_set_identifier |-> ""]

SeedTable ==
    [identifier |-> 1, lookup_type |-> TYPE_STIMULUS_SET, class |-> "cls",
     location_type |-> "S3", location |-> Location(BucketName, <<"k", ".csv">>),
     sha1 |-> "h1", stimulus_set_identifier |-> ""]

\* the tables the entry points hold when the threads start: the first none
\* or an assembly and the table of a stimulus set, the others none or the
\* archive of the stimulus set
ThreadSeedTables(name) ==
    IF name = CatalogNames[1] THEN {<<>>, <<SeedAssembly, SeedTable>>}
    ELSE {<<>>, <<SeedRow>>}

\* the reads the threads call
ReadCalls ==
    {[op |-> "list_stimulus_sets", identifier |-> 0],
     [op |-> "list_assemblies", identifier |-> 0],
     [op |-> "lookup_stimulus_set", identifier |-> 1],
     [op |-> "lookup_assembly", identifier |-> 1]}

\* what the threads call append with
ThreadRegistrations ==
    {Registration(1, "assembly", Table), Registration(2, "assembly", Table)}

\* the calls of data() that a read makes
DataCalls(op) == IF op \in {"list_stimulus_sets", "list_assemblies"} THEN 2 ELSE 3

InitThreads ==
    /\ catalogs = <<>>
    /\ concat_catalogs = <<>>
    /\ files \in {f \in [Range(CatalogNames) -> UNION {ThreadSeedTables(name) : name \in Range(CatalogNames)}] :
                    \A name \in Range(CatalogNames) : f[name] \in ThreadSeedTables(name)}
    /\ ret = NoCall
    /\ th = [t \in Threads |-> Idle]
    /\ assy = NoAssembly
    /\ res = NoResult

CallsStarted ==
    LET RECURSIVE Sum(_)
        Sum(S) == IF S = {} THEN 0
                  ELSE LET t == CHOOSE x \in S : TRUE
                       IN  th[t].calls + Sum(S \ {t})
    IN  Sum(Threads)

\* the dict the local variable catalogs of thread t refers to
Deref(t) == IF th[t].alias THEN catalogs ELSE th[t].dict

Step(t, from) == th[t].pc = from

Goto(t, fields) == th' = [th EXCEPT ![t] = fields]

CanStart(t) == th[t].pc \in {"idle", "done"} /\ CallsStarted < MaxCalls

StartRead(t) ==
    \E c \in ReadCalls :
        /\ CanStart(t)
        /\ Goto(t, [Idle EXCEPT !.pc = "data_test", !.op = c.op,
                                !.identifier = c.identifier,
                                !.calls = th[t].calls + 1,
                                !.appends = th[t].appends])
        /\ UNCHANGED <<catalogs, concat_catalogs, files, ret, assy, res>>

StartAppend(t) ==
    \E catalog_name \in Range(CatalogNames), r \in ThreadRegistrations :
        /\ CanStart(t)
        /\ Goto(t, [Idle EXCEPT !.pc = "gc_test", !.after = "ap_read",
                                !.op = "append", !.catalog = catalog_name,
                                !.identifier = r.identifier,
                                !.obj = <<object_lookup(catalog_name, r.identifier,
                                            r.artifact.cls, r.lookup_type, BucketName,
                                            r.artifact.sha1, r.artifact.s3_key)>>,
                                !.calls = th[t].calls + 1,
                                !.appends = th[t].appends + 1])
        /\ UNCHANGED <<catalogs, concat_catalogs, files, ret, assy, res>>

\* data(): if _concat_catalogs is None
DataTest(t) ==
    /\ Step(t, "data_test")
    /\ IF concat_catalogs = <<>>
       THEN Goto(t, [th[t] EXCEPT !.pc = "gc_test", !.after = "data_concat"])
       ELSE Goto(t, [th[t] EXCEPT !.pc = "data_return"])
    /\ UNCHANGED <<catalogs, concat_catalogs, files, ret, assy, res>>

\* get_catalogs(): if not _catalogs
GcTest(t) ==
    /\ Step(t, "gc_test")
    /\ IF catalogs = <<>>
       THEN Goto(t, [th[t] EXCEPT !.pc = "gc_load"])
       ELSE Goto(t, [th[t] EXCEPT !.pc = "gc_return"])
    /\ UNCHANGED <<catalogs, concat_catalogs, files, ret, assy, res>>

\* the local variables that hold a dict
HoldsDict(u) == th[u].pc \in {"data_concat", "ap_read"}

\* get_catalogs(): _catalogs = get_lookups().  The global names a new dict;
\* a thread that holds the dict it named before keeps that one
GcLoad(t) ==
    /\ Step(t, "gc_load")
    /\ catalogs' = get_lookups(files)
    /\ th' = [u \in Threads |->
                IF u = t THEN [th[t] EXCEPT !.pc = "gc_return"]
                ELSE IF HoldsDict(u) /\ th[u].alias
                THEN [th[u] EXCEPT !.alias = FALSE, !.dict = catalogs]
                ELSE th[u]]
    /\ UNCHANGED <<concat_catalogs, files, ret, assy, res>>

\* get_catalogs(): return _catalogs
GcReturn(t) ==
    /\ Step(t, "gc_return")
    /\ Goto(t, [th[t] EXCEPT !.pc = th[t].after, !.alias = TRUE, !.dict = <<>>])
    /\ UNCHANGED <<catalogs, concat_catalogs, files, ret, assy, res>>

\* data(): pd.concat(catalogs.values(), ignore_index=True)
DataConcat(t) ==
    /\ Step(t, "data_concat")
    /\ Goto(t, [th[t] EXCEPT !.pc = "data_assign", !.frame = concat(Deref(t)),
                             !.alias = TRUE, !.dict = <<>>])
    /\ UNCHANGED <<catalogs, concat_catalogs, files, ret, assy, res>>

\* a bug: a merged view that is cached already is extended
DataStore_extend(cc, frame) == IF cc = <<>> THEN <<frame>> ELSE <<cc[1] \o frame>>

\* the value data() stores in _concat_catalogs
DataStore(cc, frame) == <<frame>>

\* data(): _concat_catalogs = ...
DataAssign(t) ==
    /\ Step(t, "data_assign")
    /\ concat_catalogs' = DataStore(concat_catalogs, th[t].frame)
    /\ Goto(t, [th[t] EXCEPT !.pc = "data_return", !.frame = <<>>, !.computed = TRUE])
    /\ UNCHANGED <<catalogs, files, ret, assy, res>>

\* data(): return _concat_catalogs.  A None that is returned to a call of
\* data() that is subscripted right away raises TypeError; the first call's
\* value is subscripted after the other calls
DataReturn(t) ==
    /\ Step(t, "data_return")
    /\ LET frames == Append(th[t].frames, concat_catalogs)
       IN  IF concat_catalogs = <<>> /\ Len(frames) >= 2
           THEN Goto(t, [th[t] EXCEPT !.pc = "done", !.frames = <<>>,
                                      !.outcome = "TypeError"])
           ELSE IF Len(frames) < DataCalls(th[t].op)
           THEN Goto(t, [th[t] EXCEPT !.pc = "data_test", !.frames = frames])
           ELSE Goto(t, [th[t] EXCEPT !.pc = "finish", !.frames = frames])
    /\ UNCHANGED <<catalogs, concat_catalogs, files, ret, assy, res>>

\* what a read returns from the frames its calls of data() returned
ReadResult(op, identifier, frames) ==
    LET f1 == frames[1][1]
        f2 == frames[2][1]
        f3 == frames[3][1]
    IN  IF frames[1] = <<>> THEN Outcome("TypeError", <<>>)
        ELSE IF op = "list_stimulus_sets"
        THEN IF Unalignable(f1, Len(f2)) THEN Outcome("IndexingError", <<>>)
             ELSE Outcome("ok", SortedIdentifiers(MaskedType(f1, f2, TYPE_STIMULUS_SET)))
        ELSE IF op = "list_assemblies"
        THEN IF Unalignable(f1, Len(f2)) THEN Outcome("IndexingError", <<>>)
             ELSE Outcome("ok", SortedIdentifiers(MaskedType(f1, f2, TYPE_ASSEMBLY)))
        ELSE IF Unalignable(f1, Max(Len(f2), Len(f3))) THEN Outcome("IndexingError", <<>>)
        ELSE IF op = "lookup_stimulus_set"
        THEN lookup_stimulus_set_rows(MaskedLookup(f1, f2, f3, identifier, TYPE_STIMULUS_SET))
        ELSE lookup_assembly_rows(MaskedLookup(f1, f2, f3, identifier, TYPE_ASSEMBLY))

\* the rest of a read, which works on its own frames
Finish(t) ==
    /\ Step(t, "finish")
    /\ LET result == ReadResult(th[t].op, th[t].identifier, th[t].frames)
       IN  Goto(t, [th[t] EXCEPT !.pc = "done", !.frames = <<>>,
                                 !.outcome = result.outcome, !.value = result.value])
    /\ UNCHANGED <<catalogs, concat_catalogs, files, ret, assy, res>>

\* append: catalog = catalogs[catalog_name], the check of duplicates and
\* catalog = catalog.append(add_lookup), all on local variables
AppendRead(t) ==
    /\ Step(t, "ap_read")
    /\ LET cats == Deref(t)
           obj == th[t].obj[1]
       IN  IF th[t].catalog \notin DictKeys(cats)
           THEN Goto(t, [th[t] EXCEPT !.pc = "done", !.outcome = "KeyError",
                                      !.alias = TRUE, !.dict = <<>>])
           ELSE LET catalog == DictGet(cats, th[t].catalog)
                    check == AppendCheck(catalog, obj)
                IN  IF check # "ok"
                    THEN Goto(t, [th[t] EXCEPT !.pc = "done", !.outcome = check,
                                               !.alias = TRUE, !.dict = <<>>])
                    ELSE Goto(t, [th[t] EXCEPT !.pc = "ap_to_csv",
                                               !.frame = AppendRow(catalog, obj),
                                               !.alias = TRUE, !.dict = <<>>])
    /\ UNCHANGED <<catalogs, concat_catalogs, files, ret, assy, res>>

\* append: catalog.to_csv(catalog_path, index=False)
AppendToCsv(t) ==
    /\ Step(t, "ap_to_csv")
    /\ files' = [files EXCEPT ![th[t].catalog] = to_csv(th[t].frame)]
    /\ Goto(t, [th[t] EXCEPT !.pc = "ap_store"])
    /\ UNCHANGED <<catalogs, concat_catalogs, ret, assy, res>>

\* append: _catalogs[catalog_name] = catalog
AppendStore(t) ==
    /\ Step(t, "ap_store")
    /\ catalogs' = AppendCatalogs(catalogs, th[t].catalog, th[t].frame)
    /\ Goto(t, [th[t] EXCEPT !.pc = "ap_invalidate", !.frame = <<>>])
    /\ UNCHANGED <<concat_catalogs, files, ret, assy, res>>

\* append: _concat_catalogs = None
AppendInvalidate(t) ==
    /\ Step(t, "ap_invalidate")
    /\ concat_catalogs' = AppendCache(concat_catalogs)
    /\ Goto(t, [th[t] EXCEPT !.pc = "done", !.outcome = "ok", !.value = th[t].obj])
    /\ UNCHANGED <<catalogs, files, ret, assy, res>>

NextThreads ==
    \E t \in Threads :
        \/ StartRead(t)
        \/ StartAppend(t)
        \/ DataTest(t)
        \/ GcTest(t)
        \/ GcLoad(t)
        \/ GcReturn(t)
        \/ DataConcat(t)
        \/ DataAssign(t)
        \/ DataReturn(t)
        \/ Finish(t)
        \/ AppendRead(t)
        \/ AppendToCsv(t)
        \/ AppendStore(t)
        \/ AppendInvalidate(t)

SpecThreads == InitThreads /\ [][NextThreads]_vars

----------------------------------------------------------------------------
(* Assemblies.  An array is a record of its dimensions (dims), their extents
   (shape), the values (data, a function of the positions), the coordinates
   in the order of their declaration (coords) and, for every dimension, the
   names of the coordinates that are the levels of its composite key
   (levels).  A value of the array is a rational num/den in lowest terms; a
   value of a coordinate is a string, a number its decimal digits. *)

RECURSIVE GCD(_, _)
GCD(a, b) == IF b = 0 THEN a ELSE GCD(b, a % b)

Abs(x) == IF x < 0 THEN 0 - x ELSE x

\* the value of a cell that an outer join adds
NaN == [num |-> 0, den |-> 0]

Frac(n, d) ==
    IF d = 0 THEN NaN
    ELSE LET g == GCD(Abs(n), d) IN [num |-> n \div g, den |-> d \div g]

Plus(x, y) == Frac(x.num * y.den + y.num * x.den, x.den * y.den)

Minus(x, y) == Frac(x.num * y.den - y.num * x.den, x.den * y.den)

RECURSIVE SumOver(_, _)
SumOver(data, P) ==
    IF P = {} THEN Frac(0, 1)
    ELSE LET p == CHOOSE x \in P : TRUE
         IN  Plus(data[p], SumOver(data, P \ {p}))

\* the mean of the values at the positions P
Mean(data, P) == LET total == SumOver(data, P) IN Frac(total.num, total.den * Cardinality(P))

RECURSIVE Positions(_)
\* the positions of an array of a shape
Positions(shape) ==
    IF shape = <<>> THEN {<<>>}
    ELSE {<<i>> \o p : i \in 1..Head(shape), p \in Positions(Tail(shape))}

\* data given as whole numbers, and as halves
Ints(list) == [i \in DOMAIN list |-> Frac(list[i], 1)]
Halves(list) == [i \in DOMAIN list |-> Frac(list[i], 2)]
IntRows(rows) == [i \in DOMAIN rows |-> Ints(rows[i])]
HalfRows(rows) == [i \in DOMAIN rows |-> Halves(rows[i])]

\* the strings of the arrays below in the order in which Python sorts them
SortOrder ==
    <<"0", "1", "2", "3", "4", "5", "6", "a", "aa", "alpha", "b", "beta", "c",
      "coordA", "coordB", "d", "down", "e", "f", "gamma", "multi_dim",
      "remnant", "sideways", "up", "x", "y", "z">>

Rank(v) == CHOOSE i \in DOMAIN SortOrder : SortOrder[i] = v

RECURSIVE LexLess(_, _)
\* the order of tuples: by the first component in which they differ
LexLess(k1, k2) ==
    IF k1 = <<>> \/ k2 = <<>> THEN k1 = <<>> /\ k2 # <<>>
    ELSE IF Head(k1) = Head(k2) THEN LexLess(Tail(k1), Tail(k2))
    ELSE Rank(Head(k1)) < Rank(Head(k2))

RECURSIVE SortKeys(_)
\* sorted(S) for a set of tuples
SortKeys(S) ==
    IF S = {} THEN <<>>
    ELSE LET m == CHOOSE x \in S : \A y \in S : x = y \/ LexLess(x, y)
         IN  <<m>> \o SortKeys(S \ {m})

RECURSIVE SortedNames(_)
\* sorted(S) for a set of strings
SortedNames(S) ==
    IF S = {} THEN <<>>
    ELSE LET m == CHOOSE x \in S : \A y \in S : Rank(x) <= Rank(y)
         IN  <<m>> \o SortedNames(S \ {m})

\* a coordinate on a dimension, and one without index values
Coord(name, dim, values) == [name |-> name, dims |-> <<dim>>, values |-> values]
ScalarCoord(name, value) == [name |-> name, dims |-> <<>>, values |-> <<value>>]

\* DataArray(data=..., coords=..., dims=...): no dimension has levels
DataArray(data, coords, dims) ==
    LET shape == IF Len(dims) = 1 THEN <<Len(data)>> ELSE <<Len(data), Len(data[1])>>
    IN  [dims |-> dims,
         shape |-> shape,
         data |-> [p \in Positions(shape) |->
                      IF Len(dims) = 1 THEN data[p[1]] ELSE data[p[1]][p[2]]],
         coords |-> coords,
         levels |-> [d \in Range(dims) |-> <<>>]]

CoordNames(arr) == {arr.coords[i].name : i \in DOMAIN arr.coords}

CoordOf(arr, name) == arr.coords[CHOOSE i \in DOMAIN arr.coords : arr.coords[i].name = name]

DimIndex(arr, dim) == CHOOSE k \in DOMAIN arr.dims : arr.dims[k] = dim

RECURSIVE SelectSeq2(_, _)
\* the elements of a sequence that are in a set, in the order of the sequence
SelectSeq2(s, keep) ==
    IF s = <<>> THEN <<>>
    ELSE IF Head(s) \in keep THEN <<Head(s)>> \o SelectSeq2(Tail(s), keep)
    ELSE SelectSeq2(Tail(s), keep)

\* the names of the coordinates in the order of their declaration
DeclaredNames(arr) == [i \in DOMAIN arr.coords |-> arr.coords[i].name]

\* the coordinates of a dimension other than its index, in declared order
coords_for_dim(arr, dim) ==
    SelectSeq2(DeclaredNames(arr),
               {c.name : c \in {x \in Range(arr.coords) : x.dims = <<dim>> /\ x.name # dim}})

\* a bug: the levels are gathered in alphabetical order
gather_indexes_sorted(arr) ==
    [arr EXCEPT !.levels =
        [d \in Range(arr.dims) |->
            LET names == coords_for_dim(arr, d)
            IN  IF Len(names) >= 2 THEN SortedNames(Range(names)) ELSE <<>>]]

\* gather_indexes: the several coordinates of a dimension become the levels
\* of its composite key, in the order of their declaration
gather_indexes(arr) ==
    [arr EXCEPT !.levels =
        [d \in Range(arr.dims) |->
            LET names == coords_for_dim(arr, d)
            IN  IF Len(names) >= 2 THEN names ELSE <<>>]]

\* DataAssembly(data=..., coords=..., dims=...): the constructor gathers
DataAssembly(data, coords, dims) == gather_indexes(DataArray(data, coords, dims))

RECURSIVE FlattenLevels(_, _)
FlattenLevels(arr, dims) ==
    IF dims = <<>> THEN <<>>
    ELSE arr.levels[Head(dims)] \o FlattenLevels(arr, Tail(dims))

\* get_levels: the levels of all dimensions, dimension by dimension
get_levels(arr) == FlattenLevels(arr, arr.dims)

\* a bug: the levels are reset, and their coordinates are dropped with them
reset_index_drop(arr, names) ==
    [arr EXCEPT !.levels = [d \in Range(arr.dims) |->
                               SelectSeq2(arr.levels[d], Range(arr.levels[d]) \ names)],
                !.coords = SelectSeq(arr.coords, LAMBDA c : c.name \notin names)]

\* reset_index(names): the names are no levels any more; their coordinates
\* stay
reset_index(arr, names) ==
    [arr EXCEPT !.levels = [d \in Range(arr.dims) |->
                               SelectSeq2(arr.levels[d], Range(arr.levels[d]) \ names)]]

\* the positions of a dimension of extent n that are in a set, ascending
RECURSIVE AscendingFrom(_, _)
AscendingFrom(n, keep) ==
    IF n = 0 THEN <<>>
    ELSE IF n \in keep THEN Append(AscendingFrom(n - 1, keep), n)
    ELSE AscendingFrom(n - 1, keep)

\* the sub-array of the positions idx of dimension k
Take(arr, k, idx) ==
    LET shape == [arr.shape EXCEPT ![k] = Len(idx)]
    IN  [arr EXCEPT
            !.shape = shape,
            !.data = [p \in Positions(shape) |-> arr.data[[p EXCEPT ![k] = idx[p[k]]]]],
            !.coords = [i \in DOMAIN arr.coords |->
                           IF arr.coords[i].dims = <<arr.dims[k]>>
                           THEN [arr.coords[i] EXCEPT
                                    !.values = [j \in DOMAIN idx |-> arr.coords[i].values[idx[j]]]]
                           ELSE arr.coords[i]]]

\* the positions at which a coordinate has a value
Matching(arr, name, value) ==
    LET c == CoordOf(arr, name)
    IN  {i \in DOMAIN c.values : c.values[i] = value}

\* a bug: a value that no element has selects nothing
sel_empty(arr, name, value) ==
    LET k == DimIndex(arr, CoordOf(arr, name).dims[1])
    IN  Outcome("ok", <<Take(arr, k, AscendingFrom(arr.shape[k], Matching(arr, name, value)))>>)

\* sel(name=value) for the name of a level
sel(arr, name, value) ==
    LET k == DimIndex(arr, CoordOf(arr, name).dims[1])
        matching == Matching(arr, name, value)
    IN  IF matching = {} THEN Outcome("KeyError", <<>>)
        ELSE Outcome("ok", <<Take(arr, k, AscendingFrom(arr.shape[k], matching))>>)

\* the dimension a coordinate lives on
DimOfCoord(arr, name) == CoordOf(arr, name).dims[1]

\* the place of a name in a list of names
PlaceOf(names, name) == CHOOSE j \in DOMAIN names : names[j] = name

\* the key of position i of the grouped dimension: the values of the named
\* coordinates, in the order of the names
KeyAt(arr, names, i) == [j \in DOMAIN names |-> CoordOf(arr, names[j]).values[i]]

\* a bug: the groups come in the order of their first occurrence
GroupKeys_first(arr, names) ==
    LET k == DimIndex(arr, DimOfCoord(arr, names[1]))
        keys == [i \in 1..arr.shape[k] |-> KeyAt(arr, names, i)]
    IN  SelectRows(keys, {i \in DOMAIN keys : \A j \in 1..(i - 1) : keys[j] # keys[i]})

\* the keys of the groups: the distinct keys that occur, sorted
GroupKeys(arr, names) ==
    LET k == DimIndex(arr, DimOfCoord(arr, names[1]))
    IN  SortKeys({KeyAt(arr, names, i) : i \in 1..arr.shape[k]})

\* the coordinates of a reduced array: the coordinates of the other
\* dimensions and those without index values as they are, the named
\* coordinates of the grouped dimension with the values of the keys
GroupedCoords(arr, names, keys, dim, rdim, keep) ==
    LET kept == SelectSeq(arr.coords,
                          LAMBDA c : \/ c.name \in Range(names)
                                     \/ c.dims = <<>>
                                     \/ keep /\ c.dims # <<dim>>)
    IN  [i \in DOMAIN kept |->
            IF kept[i].name \in Range(names)
            THEN [name |-> kept[i].name,
                  dims |-> <<rdim>>,
                  values |-> [g \in DOMAIN keys |-> keys[g][PlaceOf(names, kept[i].name)]]]
            ELSE kept[i]]

\* multi_groupby(names).mean(dim=...) for names that are coordinates of one
\* dimension.  over is "dim" for the mean over the grouped dimension and
\* "all" for the mean over every dimension, mean() and mean(...).  The
\* dimension of a single name is named after it, as groupby does
multi_groupby_mean(arr, names, over) ==
    LET dim == DimOfCoord(arr, names[1])
        k == DimIndex(arr, dim)
        keys == GroupKeys(arr, names)
        members(g) == {i \in 1..arr.shape[k] : KeyAt(arr, names, i) = keys[g]}
        rdim == IF Len(names) = 1 THEN names[1] ELSE dim
        rlevels == IF Len(names) >= 2
                   THEN SelectSeq2(DeclaredNames(arr), Range(names))
                   ELSE <<>>
    IN  IF over = "all"
        THEN [dims |-> <<rdim>>,
              shape |-> <<Len(keys)>>,
              data |-> [p \in Positions(<<Len(keys)>>) |->
                           Mean(arr.data, {q \in Positions(arr.shape) : q[k] \in members(p[1])})],
              coords |-> GroupedCoords(arr, names, keys, dim, rdim, FALSE),
              levels |-> [d \in {rdim} |-> rlevels]]
        ELSE LET shape == [arr.shape EXCEPT ![k] = Len(keys)]
                 dims == [arr.dims EXCEPT ![k] = rdim]
             IN  [dims |-> dims,
                  shape |-> shape,
                  data |-> [p \in Positions(shape) |->
                               Mean(arr.data, {[p EXCEPT ![k] = i] : i \in members(p[k])})],
                  coords |-> GroupedCoords(arr, names, keys, dim, rdim, TRUE),
                  levels |-> [d \in Range(dims) |->
                                 IF d = rdim THEN rlevels ELSE arr.levels[d]]]

\* the dimension a name of multi_dim_apply refers to: the one of the
\* coordinate, or the dimension of that name
DimOfName(arr, name) ==
    IF name \in CoordNames(arr) THEN DimOfCoord(arr, name) ELSE name

\* self[name] at position i: the value of the coordinate; for a dimension
\* without an index coordinate the tuple of the values of its coordinates
GroupValue(arr, name, i) ==
    IF name \in CoordNames(arr) THEN <<CoordOf(arr, name).values[i]>>
    ELSE LET names == coords_for_dim(arr, name)
         IN  [j \in DOMAIN names |-> CoordOf(arr, names[j]).values[i]]

RECURSIVE GroupsOfDims(_, _, _)
GroupsOfDims(arr, names, dims) ==
    IF dims = <<>> THEN <<>>
    ELSE SelectSeq(names, LAMBDA n : DimOfName(arr, n) = Head(dims))
         \o GroupsOfDims(arr, names, Tail(dims))

\* a bug: the groups are taken in the order of the names
SortGroups_given(arr, names) == names

\* the groups in the order of the dimensions of the array
SortGroups(arr, names) == GroupsOfDims(arr, names, arr.dims)

RECURSIVE FirstOccurrences(_, _)
FirstOccurrences(s, seen) ==
    IF s = <<>> THEN <<>>
    ELSE IF Head(s) \in seen THEN FirstOccurrences(Tail(s), seen)
    ELSE <<Head(s)>> \o FirstOccurrences(Tail(s), seen \cup {Head(s)})

\* the functions the tests apply: lambda x, **_: x and x - x.mean()
Funcs == {"identity", "subtract_mean"}

\* the value the function gives at position q of its cell
Apply(f, data, cell, q) ==
    IF f = "identity" THEN data[q] ELSE Minus(data[q], Mean(data, cell))

\* a bug: the result has the coordinates of the dimensions alone, those
\* without index values are lost
multi_dim_apply_indexed(arr, names, f) ==
    LET groups == SortGroups(arr, names)
        rdims == FirstOccurrences([j \in DOMAIN groups |-> DimOfName(arr, groups[j])], {})
        perm == [j \in DOMAIN rdims |-> DimIndex(arr, rdims[j])]
        rshape == [j \in DOMAIN rdims |-> arr.shape[perm[j]]]
        Source(p) == [k \in DOMAIN arr.dims |-> p[CHOOSE j \in DOMAIN rdims : perm[j] = k]]
        SameGroup(x, q) ==
            \A n \in Range(names) :
                LET k == DimIndex(arr, DimOfName(arr, n))
                IN  GroupValue(arr, n, x[k]) = GroupValue(arr, n, q[k])
        Cell(q) == {x \in Positions(arr.shape) : SameGroup(x, q)}
    IN  [arr EXCEPT
            !.dims = rdims,
            !.shape = rshape,
            !.data = [p \in Positions(rshape) |->
                         Apply(f, arr.data, Cell(Source(p)), Source(p))],
            !.coords = SelectSeq(arr.coords, LAMBDA c : c.dims # <<>>)]

\* multi_dim_apply(names, func) for names that cover every dimension: the
\* cells are the elements that agree on every named coordinate; the result
\* has the dimensions of the groups and the coordinates of the array
multi_dim_apply(arr, names, f) ==
    LET groups == SortGroups(arr, names)
        rdims == FirstOccurrences([j \in DOMAIN groups |-> DimOfName(arr, groups[j])], {})
        perm == [j \in DOMAIN rdims |-> DimIndex(arr, rdims[j])]
        rshape == [j \in DOMAIN rdims |-> arr.shape[perm[j]]]
        Source(p) == [k \in DOMAIN arr.dims |-> p[CHOOSE j \in DOMAIN rdims : perm[j] = k]]
        SameGroup(x, q) ==
            \A n \in Range(names) :
                LET k == DimIndex(arr, DimOfName(arr, n))
                IN  GroupValue(arr, n, x[k]) = GroupValue(arr, n, q[k])
        Cell(q) == {x \in Positions(arr.shape) : SameGroup(x, q)}
    IN  [arr EXCEPT
            !.dims = rdims,
            !.shape = rshape,
            !.data = [p \in Positions(rshape) |->
                         Apply(f, arr.data, Cell(Source(p)), Source(p))]]

\* the index of a dimension at position i: the tuple of the values of its
\* levels, or the value of its index coordinate
IndexValue(arr, dim, i) ==
    IF arr.levels[dim] # <<>>
    THEN [j \in DOMAIN arr.levels[dim] |-> CoordOf(arr, arr.levels[dim][j]).values[i]]
    ELSE <<CoordOf(arr, dim).values[i]>>

IndexOf(arr, dim) ==
    [i \in 1..arr.shape[DimIndex(arr, dim)] |-> IndexValue(arr, dim, i)]

\* the index of a dimension after an outer join: the one both arrays have,
\* or the sorted union of the two
JoinedIndex(x, y, dim) ==
    IF IndexOf(x, dim) = IndexOf(y, dim) THEN IndexOf(x, dim)
    ELSE SortKeys(Range(IndexOf(x, dim)) \cup Range(IndexOf(y, dim)))

\* a bug: the joined index is flat, its levels are lost
Reindex_flat(arr, joined) == [arr EXCEPT !.levels = [d \in Range(arr.dims) |-> <<>>]]

\* an array on a joined index: the elements it has not are NaN
Reindex(arr, joined) ==
    LET shape == [k \in DOMAIN arr.dims |-> Len(joined[arr.dims[k]])]
        Has(p) == \A k \in DOMAIN arr.dims :
                      joined[arr.dims[k]][p[k]] \in Range(IndexOf(arr, arr.dims[k]))
        Source(p) == [k \in DOMAIN arr.dims |->
                         CHOOSE i \in 1..arr.shape[k] :
                             IndexValue(arr, arr.dims[k], i) = joined[arr.dims[k]][p[k]]]
    IN  [arr EXCEPT
            !.shape = shape,
            !.data = [p \in Positions(shape) |-> IF Has(p) THEN arr.data[Source(p)] ELSE NaN],
            !.coords = [i \in DOMAIN arr.coords |->
                           LET c == arr.coords[i]
                           IN  IF c.dims = <<>> THEN c
                               ELSE LET dim == c.dims[1]
                                        place == IF arr.levels[dim] # <<>>
                                                 THEN PlaceOf(arr.levels[dim], c.name)
                                                 ELSE 1
                                    IN  [c EXCEPT !.values =
                                            [g \in DOMAIN joined[dim] |-> joined[dim][g][place]]]]]

\* xr.align(x, y, join="outer")
align(x, y) ==
    LET joined == [d \in Range(x.dims) |-> JoinedIndex(x, y, d)]
    IN  <<Reindex(x, joined), Reindex(y, joined)>>

----------------------------------------------------------------------------
(* The arrays of the tests *)

\* the extent of the arrays that are not those of a test
MaxExtent == 3

LevelRows ==
    IntRows(<<<<1, 2, 3>>, <<4, 5, 6>>, <<7, 8, 9>>,
              <<10, 11, 12>>, <<13, 14, 15>>, <<16, 17, 18>>>>)

LevelCoords ==
    <<Coord("up", "a", <<"alpha", "alpha", "beta", "beta", "beta", "beta">>),
      Coord("down", "a", <<"1", "1", "1", "1", "2", "2">>),
      Coord("sideways", "b", <<"x", "y", "z">>)>>

\* test_wrap_dataarray: the DataArray before gather_indexes
TwoCoordArray == DataArray(LevelRows, LevelCoords, <<"a", "b">>)

\* test_get_levels, test_two_coord, test_multi_level: the DataAssembly
TwoCoord == DataAssembly(LevelRows, LevelCoords, <<"a", "b">>)

\* test_two_coord: what multi_groupby(['up', 'down']).mean(dim="a") equals
TwoCoordGrouped ==
    DataAssembly(HalfRows(<<<<5, 7, 9>>, <<17, 19, 21>>, <<29, 31, 33>>>>),
                 <<Coord("up", "a", <<"alpha", "beta", "beta">>),
                   Coord("down", "a", <<"1", "1", "2">>),
                   Coord("sideways", "b", <<"x", "y", "z">>)>>,
                 <<"a", "b">>)

\* test_single_dim_multi_coord
SingleDimMultiCoord ==
    DataAssembly(Ints(<<1, 2, 3, 4, 5, 6>>),
                 <<Coord("a", "multi_dim", <<"a", "a", "a", "a", "a", "a">>),
                   Coord("b", "multi_dim", <<"a", "a", "a", "b", "b", "b">>),
                   Coord("c", "multi_dim", <<"a", "b", "c", "d", "e", "f">>)>>,
                 <<"multi_dim">>)

SingleDimMultiCoordGrouped ==
    DataAssembly(Ints(<<2, 5>>),
                 <<Coord("a", "multi_dim", <<"a", "a">>),
                   Coord("b", "multi_dim", <<"a", "b">>)>>,
                 <<"multi_dim">>)

\* test_single_dimension
SingleDimension ==
    DataAssembly(IntRows(<<<<1, 2, 3>>, <<4, 5, 6>>>>),
                 <<Coord("a", "a", <<"a", "b">>), Coord("b", "b", <<"x", "y", "z">>)>>,
                 <<"a", "b">>)

SingleDimensionGrouped ==
    DataAssembly(Ints(<<2, 5>>), <<Coord("a", "a", <<"a", "b">>)>>, <<"a">>)

UniqueRows == IntRows(<<<<1, 2, 3>>, <<4, 5, 6>>, <<7, 8, 9>>, <<10, 11, 12>>>>)

\* test_unique_values, test_unique_values_swappeddims
UniqueValues ==
    DataAssembly(UniqueRows,
                 <<Coord("a", "a", <<"a", "b", "c", "d">>),
                   Coord("b", "b", <<"x", "y", "z">>)>>,
                 <<"a", "b">>)

\* test_nonindex_coord: a coordinate that has no index values
NonindexCoord ==
    DataAssembly(UniqueRows,
                 <<Coord("a", "a", <<"a", "b", "c", "d">>),
                   Coord("b", "b", <<"x", "y", "z">>),
                   ScalarCoord("c", "remnant")>>,
                 <<"a", "b">>)

SubtractMeanCoords ==
    <<Coord("a", "a", <<"a", "b", "c", "d">>),
      Coord("aa", "a", <<"a", "a", "b", "b">>),
      Coord("b", "b", <<"x", "y", "z">>)>>

\* test_subtract_mean
SubtractMean == DataAssembly(UniqueRows, SubtractMeanCoords, <<"a", "b">>)

SubtractMeanApplied ==
    DataAssembly(HalfRows(<<<<0 - 3, 0 - 3, 0 - 3>>, <<3, 3, 3>>,
                            <<0 - 3, 0 - 3, 0 - 3>>, <<3, 3, 3>>>>),
                 SubtractMeanCoords, <<"a", "b">>)

\* test_multi_elements
MultiElements ==
    DataAssembly(Ints(<<0, 1, 2, 3, 4>>),
                 <<Coord("coordA", "dim", <<"0", "1", "2", "3", "4">>),
                   Coord("coordB", "dim", <<"1", "2", "3", "4", "5">>)>>,
                 <<"dim">>)

\* test_single_element, test_incorrect_coord
SingleElement ==
    DataAssembly(Ints(<<0>>),
                 <<Coord("coordA", "dim", <<"0">>), Coord("coordB", "dim", <<"1">>)>>,
                 <<"dim">>)

\* test_align: an array on a MultiIndex with the levels up and down
Aligned(up) ==
    [DataArray(LevelRows,
               <<Coord("up", "a", up),
                 Coord("down", "a", <<"1", "2", "3", "4", "5", "6">>),
                 Coord("b", "b", <<"x", "y", "z">>)>>,
               <<"a", "b">>)
        EXCEPT !.levels = [d \in {"a", "b"} |-> IF d = "a" THEN <<"up", "down">> ELSE <<>>]]

Align1 == Aligned(<<"alpha", "alpha", "beta", "beta", "beta", "beta">>)
Align2 == Aligned(<<"alpha", "alpha", "beta", "beta", "gamma", "gamma">>)

\* the arrays of the tests
TestArrays ==
    {TwoCoordArray, TwoCoord, SingleDimMultiCoord, SingleDimension, UniqueValues,
     NonindexCoord, SubtractMean, MultiElements, SingleElement, Align1, Align2}

\* arrays of one dimension with the levels up and down in every combination
LevelArrays ==
    {DataAssembly(Ints([i \in 1..MaxExtent |-> i]),
                  <<Coord("up", "a", up), Coord("down", "a", down)>>,
                  <<"a">>) :
        up \in [1..MaxExtent -> {"alpha", "beta"}],
        down \in [1..MaxExtent -> {"1", "2"}]}

----------------------------------------------------------------------------
(* The operations on the assembly a caller holds.  Every operation returns
   a new array and leaves the one it is called on as it is; a run is one
   operation on one array. *)

\* a value that no coordinate has
NoSuchValue == "none"

Result(op, names, arg, outcome, value, other) ==
    [op |-> op, names |-> names, arg |-> arg, outcome |-> outcome,
     value |-> value, other |-> other]

\* the lists that name every element of a set once
Permutations(S) ==
    {s \in [1..Cardinality(S) -> S] : \A i, j \in DOMAIN s : i # j => s[i] # s[j]}

\* the coordinates of a dimension, its index among them
CoordsOn(arr, dim) == {c.name : c \in {x \in Range(arr.coords) : x.dims = <<dim>>}}

\* the lists of names multi_groupby is called with: coordinates of one
\* dimension, in any order
GroupNames(arr) ==
    UNION {Permutations(N) : N \in UNION {SUBSET CoordsOn(arr, d) \ {{}} : d \in Range(arr.dims)}}

\* the names multi_dim_apply is called with: for every dimension at least
\* one name, a coordinate of the dimension or the dimension itself
ApplyPool(arr) ==
    UNION {CoordsOn(arr, d) \cup (IF coords_for_dim(arr, d) # <<>> THEN {d} ELSE {}) :
              d \in Range(arr.dims)}

ApplyNames(arr) ==
    UNION {Permutations(N) :
              N \in {M \in SUBSET ApplyPool(arr) :
                        /\ Cardinality(M) <= Len(arr.dims) + 1
                        /\ \A d \in Range(arr.dims) : \E n \in M : DimOfName(arr, n) = d}}

\* the arrays xr.align is called with: those of test_align, for an array
\* that has their dimensions, coordinates and levels
AlignedWith(arr) ==
    {o \in {Align1, Align2} :
        /\ o.dims = arr.dims
        /\ o.levels = arr.levels
        /\ DeclaredNames(o) = DeclaredNames(arr)}

\* a bug: the new array has the coordinates, but no dimension has levels
Wrap_plain(arr) == [arr EXCEPT !.levels = [d \in Range(arr.dims) |-> <<>>]]

\* DataArray(da): a new array of the data, the coordinates and the indexes
Wrap(arr) ==
    [dims |-> arr.dims, shape |-> arr.shape, data |-> arr.data,
     coords |-> arr.coords, levels |-> arr.levels]

InitAssemblies ==
    /\ catalogs = <<>>
    /\ concat_catalogs = <<>>
    /\ files = [c \in Range(CatalogNames) |-> <<>>]
    /\ ret = NoCall
    /\ th = [t \in Threads |-> Idle]
    /\ assy \in TestArrays \cup LevelArrays
    /\ res = NoResult

\* what an operation on the assembly leaves as it is
Operand == <<catalogs, concat_catalogs, files, ret, th, assy>>

\* no operation was called yet
Fresh == res = NoResult

\* gather_indexes(da)
GatherIndexes ==
    /\ Fresh
    /\ res' = Result("gather_indexes", <<>>, "", "ok", <<gather_indexes(assy)>>, <<>>)
    /\ UNCHANGED Operand

\* DataArray(da)
WrapDataArray ==
    /\ Fresh
    /\ res' = Result("DataArray", <<>>, "", "ok", <<Wrap(assy)>>, <<>>)
    /\ UNCHANGED Operand

\* da.reset_index(names)
ResetIndex ==
    /\ Fresh
    /\ \E d \in Range(assy.dims) :
          \E names \in SUBSET Range(assy.levels[d]) \ {{}} :
              res' = Result("reset_index", SortedNames(names), "", "ok",
                            <<reset_index(assy, names)>>, <<>>)
    /\ UNCHANGED Operand

\* d.sel(name=value) for a level: the sub-array, or KeyError
Sel ==
    /\ Fresh
    /\ \E name \in Range(get_levels(assy)) :
          \E value \in Range(CoordOf(assy, name).values) \cup {NoSuchValue} :
              LET result == sel(assy, name, value)
              IN  res' = Result("sel", <<name>>, value, result.outcome, result.value, <<>>)
    /\ UNCHANGED Operand

\* d.multi_groupby(names).mean(dim=...), mean() or mean(...)
MultiGroupbyMean ==
    /\ Fresh
    /\ \E names \in GroupNames(assy), over \in {"dim", "all"} :
          res' = Result("multi_groupby", names, over, "ok",
                        <<multi_groupby_mean(assy, names, over)>>, <<>>)
    /\ UNCHANGED Operand

\* d.multi_dim_apply(names, func)
MultiDimApply ==
    /\ Fresh
    /\ \E names \in ApplyNames(assy), f \in Funcs :
          res' = Result("multi_dim_apply", names, f, "ok",
                        <<multi_dim_apply(assy, names, f)>>, <<>>)
    /\ UNCHANGED Operand

\* aligned1, aligned2 = xr.align(da1, da2, join="outer")
Align ==
    /\ Fresh
    /\ \E o \in AlignedWith(assy) :
          LET aligned == align(assy, o)
          IN  res' = Result("align", <<>>, "", "ok", <<aligned[1]>>, <<aligned[2]>>)
    /\ UNCHANGED Operand

NextAssemblies ==
    \/ GatherIndexes
    \/ WrapDataArray
    \/ ResetIndex
    \/ Sel
    \/ MultiGroupbyMean
    \/ MultiDimApply
    \/ Align

SpecAssemblies == InitAssemblies /\ [][NextAssemblies]_vars

----------------------------------------------------------------------------
(* The vocabulary of the properties: the catalogs as sets of records *)

\* the catalogs in memory, as get_catalogs() returns them
Loaded == get_catalogs(catalogs, files)

\* the rows of all catalogs together
MergedRows == UNION {Range(Loaded[i].value) : i \in DOMAIN Loaded}

RowsOf(identifier, t) ==
    {r \in MergedRows : r["identifier"] = identifier /\ r["lookup_type"] = t}

\* a row without its lookup_source column
Record(r) == [c \in (DOMAIN r) \ {LOOKUP_SOURCE} |-> r[c]]

\* the distinct records of an identifier and a kind
RecordsOf(identifier, t) == {Record(r) : r \in RowsOf(identifier, t)}

IsTable(rec) ==
    /\ rec["lookup_type"] = TYPE_STIMULUS_SET
    /\ rec["location"][Len(rec["location"])] = ".csv"
    /\ rec["class"] # NoneValue

IsArchive(rec) ==
    /\ rec["lookup_type"] = TYPE_STIMULUS_SET
    /\ rec["location"][Len(rec["location"])] = ".zip"
    /\ rec["class"] = NoneValue

Tables(identifier) == {rec \in RecordsOf(identifier, TYPE_STIMULUS_SET) : IsTable(rec)}
Archives(identifier) == {rec \in RecordsOf(identifier, TYPE_STIMULUS_SET) : IsArchive(rec)}

ReturnedRecords(call) == {Record(call.value[i]) : i \in DOMAIN call.value}

----------------------------------------------------------------------------
(* C1: lookup_assembly(identifier) has three outcomes over the rows of all
   catalogs: AssemblyLookupError when no assembly row has the identifier,
   the single record when all such rows agree on every column but
   lookup_source, RuntimeError and no record when two of them differ. *)
C1_LookupAssemblyOutcomes ==
    ret.op = "lookup_assembly" =>
        LET rows == RowsOf(ret.identifier, TYPE_ASSEMBLY)
            recs == RecordsOf(ret.identifier, TYPE_ASSEMBLY)
        IN  /\ rows = {} => ret.outcome = "AssemblyLookupError" /\ ret.value = <<>>
            /\ Cardinality(recs) = 1 =>
                  /\ ret.outcome = "ok"
                  /\ Len(ret.value) = 1
                  /\ ret.value[1] \in rows
            /\ Cardinality(recs) >= 2 => ret.outcome = "RuntimeError" /\ ret.value = <<>>

\* the record is returned although two catalogs register it
C1_Witness ==
    /\ ret.op = "lookup_assembly"
    /\ ret.outcome = "ok"
    /\ Cardinality(RowsOf(ret.identifier, TYPE_ASSEMBLY)) = 2

----------------------------------------------------------------------------
(* C2: after any sequence of appends the uniqueness invariants hold across
   all catalogs: every identifier has at most one distinct assembly record
   once lookup_source is removed, and no stimulus-set records but at most
   one table with a class and one archive without a class. *)
C2_UniquenessAcrossCatalogs ==
    \A identifier \in Identifiers :
        /\ Cardinality(RecordsOf(identifier, TYPE_ASSEMBLY)) <= 1
        /\ Cardinality(RecordsOf(identifier, TYPE_STIMULUS_SET)) <= 2
        /\ Cardinality(RecordsOf(identifier, TYPE_STIMULUS_SET)) = 2 =>
              /\ Cardinality(Tables(identifier)) = 1
              /\ Cardinality(Archives(identifier)) = 1

----------------------------------------------------------------------------
\* the lookup that resolves records of a lookup type
ResolveOp(t) == IF t = TYPE_ASSEMBLY THEN "lookup_assembly" ELSE "lookup_stimulus_set"

\* a step from the state a successful append leaves to the state left by
\* the resolve of the appended identifier, for the kind of the new record
AppendThenResolve ==
    /\ ret.op = "append"
    /\ ret.outcome = "ok"
    /\ ret'.op = ResolveOp(ret.value[1]["lookup_type"])
    /\ ret'.identifier = ret.value[1]["identifier"]

(* C3 as stated: the resolve that follows a successful append returns the
   record that was just appended. *)
C3_ResolveReturnsAppended ==
    [][AppendThenResolve =>
          /\ ret'.outcome = "ok"
          /\ Record(ret.value[1]) \in ReturnedRecords(ret')]_vars

(* C3, amended: a successful append leaves the cache empty, so that the
   merged view the next read computes contains the new row.  The resolve
   that follows returns the assembly record exactly when no catalog holds a
   different assembly record of the identifier, and the pair (table,
   archive) exactly when the catalogs hold one distinct table record and
   one distinct archive record of it; what it returns is then the appended
   record in every column but lookup_source, unless that record is neither
   a table nor an archive.  Otherwise the resolve raises. *)
C3_ResolveAfterAppend ==
    [][AppendThenResolve =>
          LET new == ret.value[1]
              identifier == new["identifier"]
          IN  /\ concat_catalogs = <<>>
              /\ new \in Range(concat_catalogs'[1])
              /\ new["lookup_type"] = TYPE_ASSEMBLY =>
                    /\ ret'.outcome = "ok"
                          <=> RecordsOf(identifier, TYPE_ASSEMBLY) = {Record(new)}
                    /\ ret'.outcome = "ok" => ReturnedRecords(ret') = {Record(new)}
              /\ new["lookup_type"] = TYPE_STIMULUS_SET =>
                    /\ ret'.outcome = "ok"
                          <=> /\ Cardinality(Tables(identifier)) = 1
                              /\ Cardinality(Archives(identifier)) = 1
                    /\ ret'.outcome = "ok" /\ (IsTable(new) \/ IsArchive(new))
                          => Record(new) \in ReturnedRecords(ret')
                    /\ ret'.outcome # "ok"
                          => ret'.outcome \in {"StimulusSetLookupError", "RuntimeError"}]_vars

\* the appended record is resolved from a merged view that was cached
\* before the append: the resolve has refilled the cache
C3_Witness ==
    /\ ret.op = "lookup_assembly"
    /\ ret.outcome = "ok"
    /\ \E i \in DOMAIN Loaded :
          /\ Len(Loaded[i].value) = 2
          /\ Loaded[i].value[1]["lookup_type"] = TYPE_STIMULUS_SET
          /\ Loaded[i].value[2] = ret.value[1]

----------------------------------------------------------------------------
\* the lookup type that a lookup resolves
KindOf(op) == IF op = "lookup_assembly" THEN TYPE_ASSEMBLY ELSE TYPE_STIMULUS_SET

\* the last call resolved an identifier that has exactly one distinct record
\* of the kind
ResolvedOnlyRecord(op) ==
    /\ ret.op = op
    /\ Cardinality(RecordsOf(ret.identifier, KindOf(op))) = 1

(* C4 as stated: an identifier registered exactly once for a kind resolves
   to that record and not to an error, a stimulus set to a pair in which
   the representation that is not registered is absent. *)
C4_OnlyRecordIsReturned ==
    \A op \in {"lookup_assembly", "lookup_stimulus_set"} :
        ResolvedOnlyRecord(op) =>
            /\ ret.outcome = "ok"
            /\ ReturnedRecords(ret) = RecordsOf(ret.identifier, KindOf(op))

(* C4, amended: an identifier with exactly one distinct assembly record
   resolves to that record; an identifier with exactly one distinct
   stimulus-set record does not resolve: lookup_stimulus_set raises
   StimulusSetLookupError for the representation that is not registered
   and returns no pair. *)
C4_OnlyRecord ==
    /\ ResolvedOnlyRecord("lookup_assembly") =>
          /\ ret.outcome = "ok"
          /\ ReturnedRecords(ret) = RecordsOf(ret.identifier, TYPE_ASSEMBLY)
    /\ ResolvedOnlyRecord("lookup_stimulus_set") =>
          /\ ret.outcome = "StimulusSetLookupError"
          /\ ret.value = <<>>

\* the one record of a stimulus set is a table, and the resolve has raised
C4_Witness ==
    /\ ResolvedOnlyRecord("lookup_stimulus_set")
    /\ Cardinality(Tables(ret.identifier)) = 1
    /\ ret.outcome = "StimulusSetLookupError"

----------------------------------------------------------------------------
\* the last call resolved a stimulus set that has two distinct records, a
\* table with a class and an archive without one
ResolvedPair ==
    /\ ret.op = "lookup_stimulus_set"
    /\ Cardinality(RecordsOf(ret.identifier, TYPE_STIMULUS_SET)) = 2
    /\ Cardinality(Tables(ret.identifier)) = 1
    /\ Cardinality(Archives(ret.identifier)) = 1

(* C5: an identifier with exactly two distinct stimulus-set records, a .csv
   table with a class and a .zip archive without one, resolves to the pair
   (table record, archive record) in that order and raises nothing,
   whichever catalogs hold the records and however many repeat them. *)
C5_PairIsReturned ==
    ResolvedPair =>
        /\ ret.outcome = "ok"
        /\ Len(ret.value) = 2
        /\ Tables(ret.identifier) = {Record(ret.value[1])}
        /\ Archives(ret.identifier) = {Record(ret.value[2])}

\* the pair is returned with the archive in both catalogs
C5_Witness ==
    /\ ResolvedPair
    /\ ret.outcome = "ok"
    /\ Cardinality(RowsOf(ret.identifier, TYPE_STIMULUS_SET)) = 3

----------------------------------------------------------------------------
(* C6 as stated: three or more distinct stimulus-set records of one
   identifier, or two distinct archive records of it, make
   lookup_stimulus_set fail with RuntimeError. *)
C6_ConflictIsRuntimeError ==
    /\ ret.op = "lookup_stimulus_set"
    /\ \/ Cardinality(RecordsOf(ret.identifier, TYPE_STIMULUS_SET)) >= 3
       \/ Cardinality(Archives(ret.identifier)) >= 2
    => ret.outcome = "RuntimeError"

(* C6, amended: lookup_stimulus_set fails with RuntimeError whenever the
   catalogs hold two or more distinct table records of the identifier, or
   one table record and two or more distinct archive records.  With two
   distinct archive records it never returns a pair, but without a table
   record the failure is the not-found error.  Three distinct records of
   which only one is a table and only one an archive resolve to the pair. *)
C6_Conflict ==
    ret.op = "lookup_stimulus_set" =>
        LET tables == Cardinality(Tables(ret.identifier))
            archives == Cardinality(Archives(ret.identifier))
        IN  /\ tables >= 2 => ret.outcome = "RuntimeError"
            /\ tables = 1 /\ archives >= 2 => ret.outcome = "RuntimeError"
            /\ tables = 0 /\ archives >= 2 => ret.outcome = "StimulusSetLookupError"
            /\ tables = 1 /\ archives = 1 => ret.outcome = "ok"
            /\ ret.outcome # "ok" => ret.value = <<>>

\* two distinct archives beside one table: the consistency error
C6_Witness ==
    /\ ret.op = "lookup_stimulus_set"
    /\ Cardinality(Tables(ret.identifier)) = 1
    /\ Cardinality(Archives(ret.identifier)) = 2
    /\ ret.outcome = "RuntimeError"

----------------------------------------------------------------------------
(* C7: an append that is rejected (a duplicate in the named catalog, a
   lookup type other than assembly and stimulus_set, a catalog that is no
   entry point) raises and changes nothing: the catalogs in memory, as
   get_catalogs() returns them, the backing file of every catalog and the
   cache of the merged view are as before the call. *)
C7_RejectedAppendChangesNothing ==
    [][ret'.op = "append" /\ ret'.outcome # "ok" =>
          /\ ret'.outcome \in {"KeyError", "AssertionError", "ValueError"}
          /\ ret'.catalog = UnknownCatalog <=> ret'.outcome = "KeyError"
          /\ ret'.value = <<>>
          /\ files' = files
          /\ concat_catalogs' = concat_catalogs
          /\ get_catalogs(catalogs', files') = get_catalogs(catalogs, files)]_vars

\* a duplicate was rejected while the merged view was cached
C7_Witness ==
    /\ ret.op = "append"
    /\ ret.outcome = "ValueError"
    /\ concat_catalogs # <<>>
    /\ Len(concat_catalogs[1]) >= 2

----------------------------------------------------------------------------
(* C10: after a successful append to a catalog its backing file holds one
   row per record of the catalog in memory, the old records and the new
   one in order, and the rows have no lookup_source column. *)
C10_FileRowsWithoutSource ==
    ret.op = "append" /\ ret.outcome = "ok" =>
        LET catalog == DictGet(catalogs, ret.catalog)
        IN  files[ret.catalog] =
                [i \in DOMAIN catalog |->
                    [c \in (DOMAIN catalog[i]) \ {LOOKUP_SOURCE} |->
                        CsvCell(c, catalog[i][c])]]

----------------------------------------------------------------------------
\* the row of a record in a backing file that has the lookup_source column
FileRow(obj) == [c \in DOMAIN obj |-> CsvCell(c, obj[c])]

\* both threads have returned from a successful append to one catalog, of
\* records with distinct identifiers
BothAppended ==
    /\ \A t \in Threads :
          th[t].pc = "done" /\ th[t].op = "append" /\ th[t].outcome = "ok"
    /\ th[1].catalog = th[2].catalog
    /\ th[1].identifier # th[2].identifier

(* C8: append is a critical section: however two appends of distinct
   identifiers to one catalog interleave, both records end up in the
   catalog in memory and in its backing file, as after one of the two
   serial orders; no update is lost. *)
C8_AppendsAreSerializable ==
    BothAppended =>
        \A t \in Threads :
            /\ th[t].value[1] \in Range(DictGet(catalogs, th[t].catalog))
            /\ FileRow(th[t].value[1]) \in Range(files[th[t].catalog])

----------------------------------------------------------------------------
ReadOps == {"list_stimulus_sets", "list_assemblies", "lookup_stimulus_set", "lookup_assembly"}

\* no thread has called append
NoAppendYet == \A t \in Threads : th[t].appends = 0

\* what a read returns when it runs alone on the catalogs
ReadAlone(op, identifier) ==
    LET d == concat(Loaded)
    IN  IF op = "list_stimulus_sets" THEN Outcome("ok", list_stimulus_sets(d))
        ELSE IF op = "list_assemblies" THEN Outcome("ok", list_assemblies(d))
        ELSE IF op = "lookup_stimulus_set" THEN lookup_stimulus_set(d, identifier)
        ELSE lookup_assembly(d, identifier)

(* C9: while no append is called, however the reads of several threads
   interleave, every read returns what it returns when it runs alone on the
   same catalogs, the catalogs stay what the entry points hold, and the
   cache of the merged view is empty or the merge of the catalogs. *)
C9_ConcurrentReads ==
    NoAppendYet =>
        /\ \A t \in Threads :
              th[t].pc = "done" /\ th[t].op \in ReadOps =>
                  Outcome(th[t].outcome, th[t].value)
                      = ReadAlone(th[t].op, th[t].identifier)
        /\ catalogs \in {<<>>, get_lookups(files)}
        /\ concat_catalogs \in {<<>>, <<concat(Loaded)>>}

\* two reads that both computed the merged view have returned records
C9_Witness ==
    /\ NoAppendYet
    /\ \A t \in Threads : th[t].pc = "done" /\ th[t].computed /\ th[t].outcome = "ok"
    /\ th[1].op = "lookup_assembly"
    /\ th[2].op = "lookup_stimulus_set"

----------------------------------------------------------------------------
\* the identifiers that have a row of the lookup type in some catalog
Registered(t) == {identifier \in Identifiers : RowsOf(identifier, t) # {}}

\* a sequence of identifiers in strictly ascending order
Ascending(s) == \A i, j \in DOMAIN s : i < j => s[i] < s[j]

(* C11: list_assemblies() and list_stimulus_sets() return, in ascending
   order and without repetition, exactly the identifiers that have a row of
   that kind in some catalog: once however many rows and catalogs register
   it, and not for rows of the other kind. *)
C11_ListsAreSortedSets ==
    /\ ret.op = "list_assemblies" =>
          /\ ret.outcome = "ok"
          /\ Ascending(ret.value)
          /\ Range(ret.value) = Registered(TYPE_ASSEMBLY)
    /\ ret.op = "list_stimulus_sets" =>
          /\ ret.outcome = "ok"
          /\ Ascending(ret.value)
          /\ Range(ret.value) = Registered(TYPE_STIMULUS_SET)

\* two assemblies are listed, the first registered in both catalogs, the
\* second appended after the first
C11_Witness ==
    /\ ret.op = "list_assemblies"
    /\ ret.value = <<1, 2>>
    /\ Cardinality(RowsOf(1, TYPE_ASSEMBLY)) = 2

----------------------------------------------------------------------------
\* the record append builds for a registration in a catalog
Candidate(catalog_name, r) ==
    object_lookup(catalog_name, r.identifier, r.artifact.cls, r.lookup_type,
                  BucketName, r.artifact.sha1, r.artifact.s3_key)

\* the rows of a catalog in memory that have the identifier and the kind
CatalogRows(catalog_name, identifier, t) ==
    LET catalog == DictGet(Loaded, catalog_name)
    IN  {i \in DOMAIN catalog :
            catalog[i]["identifier"] = identifier /\ catalog[i]["lookup_type"] = t}

\* two records that are the two representations of a stimulus set
IsPair(r1, r2) ==
    \/ IsTable(r1) /\ IsArchive(r2)
    \/ IsArchive(r1) /\ IsTable(r2)

(* C18: in every catalog every stimulus-set identifier has at most two
   rows, and two only as a table with a class and an archive without one.
   append to the catalog accepts a stimulus-set record when the catalog has
   no row of the identifier, or one row that forms the pair with the new
   record, in either order; it raises ValueError for a second record of the
   same representation, for a second record that is neither, for any
   record after one that is neither, and for every third record. *)
C18_PairingInOneCatalog ==
    \A catalog_name \in Range(CatalogNames) :
        LET catalog == DictGet(Loaded, catalog_name)
        IN  /\ \A identifier \in Identifiers :
                  LET rows == CatalogRows(catalog_name, identifier, TYPE_STIMULUS_SET)
                  IN  /\ Cardinality(rows) <= 2
                      /\ \A i, j \in rows : i < j => IsPair(catalog[i], catalog[j])
            /\ \A r \in Registrations :
                  r.lookup_type = TYPE_STIMULUS_SET =>
                      LET new == Candidate(catalog_name, r)
                          rows == CatalogRows(catalog_name, r.identifier, TYPE_STIMULUS_SET)
                          accepted ==
                              \/ rows = {}
                              \/ /\ Cardinality(rows) = 1
                                 /\ \A i \in rows : IsPair(catalog[i], new)
                      IN  AppendCheck(catalog, new) = IF accepted THEN "ok" ELSE "ValueError"

\* a third record of a stimulus set was rejected by a catalog that holds the
\* table and the archive, the table appended after the archive
C18_Witness ==
    /\ ret.op = "append"
    /\ ret.outcome = "ValueError"
    /\ LET catalog == DictGet(Loaded, ret.catalog)
       IN  /\ Len(catalog) = 2
           /\ IsArchive(catalog[1])
           /\ IsTable(catalog[2])
           /\ catalog[1]["identifier"] = catalog[2]["identifier"]

----------------------------------------------------------------------------
\* s is an initial part of t
IsPrefix(s, t) == Len(s) <= Len(t) /\ SubSeq(t, 1, Len(s)) = s

(* C19: catalogs are append-only.  No call removes, alters or reorders a
   row of a catalog in memory.  A successful append to a catalog adds one
   row, the new record, at the end of that catalog and leaves the other
   catalogs and their backing files as they are; every other call leaves
   all catalogs and all backing files as they are. *)
C19_AppendOnly ==
    [][LET before == get_catalogs(catalogs, files)
           after == get_catalogs(catalogs', files')
       IN  /\ DOMAIN after = DOMAIN before
           /\ \A i \in DOMAIN before :
                  /\ after[i].key = before[i].key
                  /\ IsPrefix(before[i].value, after[i].value)
           /\ IF ret'.op = "append" /\ ret'.outcome = "ok"
              THEN \A i \in DOMAIN before :
                      IF before[i].key = ret'.catalog
                      THEN after[i].value = Append(before[i].value, ret'.value[1])
                      ELSE /\ after[i].value = before[i].value
                           /\ files'[before[i].key] = files[before[i].key]
              ELSE after = before /\ files' = files]_vars

\* a record was appended to a catalog that held a record, beside a
\* catalog that holds one
C19_Witness ==
    /\ ret.op = "append"
    /\ ret.outcome = "ok"
    /\ Len(DictGet(Loaded, ret.catalog)) = 2
    /\ \A i \in DOMAIN Loaded : Len(Loaded[i].value) >= 1

----------------------------------------------------------------------------
\* the rows of a frame that have the lookup type
OfKind(frame, t) == SelectRows(frame, {i \in DOMAIN frame : frame[i]["lookup_type"] = t})

\* the identifier has rows of both kinds in the catalogs
BothKinds(identifier) ==
    /\ RowsOf(identifier, TYPE_ASSEMBLY) # {}
    /\ RowsOf(identifier, TYPE_STIMULUS_SET) # {}

(* C20: uniqueness of identifiers is per kind.  append never rejects a
   record because of rows of the other kind: its check gives what it gives
   on the rows of the record's kind alone, and accepts a record whose
   identifier has no row of its kind in the named catalog.  lookup_assembly
   returns what it returns on the assembly rows alone, and
   lookup_stimulus_set what it returns on the stimulus-set rows alone. *)
C20_UniquePerKind ==
    /\ \A catalog_name \in Range(CatalogNames), r \in Registrations :
          LET catalog == DictGet(Loaded, catalog_name)
              new == Candidate(catalog_name, r)
          IN  /\ AppendCheck(catalog, new) = AppendCheck(OfKind(catalog, r.lookup_type), new)
              /\ CatalogRows(catalog_name, r.identifier, r.lookup_type) = {}
                    => AppendCheck(catalog, new) = "ok"
    /\ ret.op = "lookup_assembly" =>
          Outcome(ret.outcome, ret.value)
              = lookup_assembly(OfKind(concat(Loaded), TYPE_ASSEMBLY), ret.identifier)
    /\ ret.op = "lookup_stimulus_set" =>
          Outcome(ret.outcome, ret.value)
              = lookup_stimulus_set(OfKind(concat(Loaded), TYPE_STIMULUS_SET), ret.identifier)

\* the assembly of an identifier was resolved that is a stimulus set too
C20_Witness ==
    /\ ret.op = "lookup_assembly"
    /\ ret.outcome = "ok"
    /\ BothKinds(ret.identifier)

----------------------------------------------------------------------------
(* The vocabulary of the properties of assemblies *)

\* the array the last operation returned
Returned == res.value[1]

\* the index of the dimension a coordinate of an array lives on
AxisOf(arr, name) == DimIndex(arr, DimOfCoord(arr, name))

\* element j of dimension k of an array: its values over the other
\* dimensions
SliceAt(arr, k, j) ==
    [p \in Positions([arr.shape EXCEPT ![k] = 1]) |-> arr.data[[p EXCEPT ![k] = j]]]

\* n times a value
Scale(x, n) == Frac(x.num * n, x.den)

\* the keys of the elements of a dimension, element by element
KeysAlong(arr, names) ==
    [i \in 1..arr.shape[AxisOf(arr, names[1])] |-> KeyAt(arr, names, i)]

\* a sequence of tuples in strictly ascending order
AscendingKeys(keys) == \A i, j \in DOMAIN keys : i < j => LexLess(keys[i], keys[j])

\* the sub-array sel returns holds exactly the elements of arr that have
\* the value, in their order
SelectsExactly(arr, name, value, r) ==
    LET k == AxisOf(arr, name)
        matching == AscendingFrom(arr.shape[k], Matching(arr, name, value))
    IN  /\ r.dims = arr.dims
        /\ r.shape = [arr.shape EXCEPT ![k] = Len(matching)]
        /\ Len(matching) >= 1
        /\ \A j \in DOMAIN matching :
              /\ SliceAt(r, k, j) = SliceAt(arr, k, matching[j])
              /\ \A c \in CoordsOn(arr, arr.dims[k]) :
                    CoordOf(r, c).values[j] = CoordOf(arr, c).values[matching[j]]
        /\ \A j \in DOMAIN CoordOf(r, name).values : CoordOf(r, name).values[j] = value

(* C12: multi_groupby(names).mean(...) has one element per distinct tuple
   of values of the named coordinates, in the sorted order of the tuples;
   the element holds the mean of the members of its group; every value of a
   key is the value of the coordinate of its name, several names are the
   levels of the dimension, and the result is selected by every single
   name.  For the levels up and down of test_two_coord the groups are
   (alpha, 1), (beta, 1), (beta, 2) with the row means of the test. *)
C12_GroupMeans ==
    res.op = "multi_groupby" =>
        LET names == res.names
            k == AxisOf(assy, names[1])
            keys == KeysAlong(Returned, names)
            rk == AxisOf(Returned, names[1])
        IN  /\ Range(keys) = Range(KeysAlong(assy, names))
            /\ AscendingKeys(keys)
            /\ \A p \in DOMAIN Returned.data :
                  LET members == {i \in 1..assy.shape[k] : KeyAt(assy, names, i) = keys[p[rk]]}
                      cells == IF res.arg = "all"
                               THEN {q \in DOMAIN assy.data : q[k] \in members}
                               ELSE {[p EXCEPT ![k] = i] : i \in members}
                  IN  SumOver(assy.data, cells) = Scale(Returned.data[p], Cardinality(cells))
            /\ Len(names) >= 2 =>
                  Range(Returned.levels[Returned.dims[rk]]) = Range(names)
            /\ \A j \in DOMAIN names, g \in DOMAIN keys :
                  LET selected == sel(Returned, names[j], keys[g][j])
                  IN  /\ selected.outcome = "ok"
                      /\ SelectsExactly(Returned, names[j], keys[g][j], selected.value[1])
            /\ assy = TwoCoord /\ names = <<"up", "down">> /\ res.arg = "dim" =>
                  /\ keys = << <<"alpha", "1">>, <<"beta", "1">>, <<"beta", "2">> >>
                  /\ Returned = TwoCoordGrouped

\* the array of test_two_coord was grouped by its two levels
C12_Witness ==
    /\ res.op = "multi_groupby"
    /\ assy = TwoCoord
    /\ res.names = <<"up", "down">>
    /\ res.arg = "dim"
    /\ Returned.shape = <<3, 3>>

----------------------------------------------------------------------------
\* no two cells of the array agree on every one of the names
UniquePerCell(arr, names) ==
    \A x, q \in DOMAIN arr.data :
        (\A n \in Range(names) :
            LET k == DimIndex(arr, DimOfName(arr, n))
            IN  GroupValue(arr, n, x[k]) = GroupValue(arr, n, q[k]))
        => x = q

(* C13: multi_dim_apply(names, identity) on names whose values are unique
   per cell returns an array equal to the one it is called on: the data,
   the dimensions and their order, the coordinates, those without index
   values among them, and the levels of every dimension. *)
C13_IdentityApply ==
    /\ res.op = "multi_dim_apply"
    /\ res.arg = "identity"
    /\ UniquePerCell(assy, res.names)
    => /\ Returned.dims = assy.dims
       /\ Returned.shape = assy.shape
       /\ Returned.data = assy.data
       /\ Returned.coords = assy.coords
       /\ Returned.levels = assy.levels

\* the identity was applied to the array of test_nonindex_coord, which has
\* a coordinate without index values
C13_Witness ==
    /\ res.op = "multi_dim_apply"
    /\ res.arg = "identity"
    /\ assy = NonindexCoord
    /\ res.names = <<"a", "b">>
    /\ UniquePerCell(assy, res.names)
    /\ Returned = NonindexCoord

----------------------------------------------------------------------------
(* C14 as stated: the result of multi_groupby(names).mean and of
   multi_dim_apply(names, f) is the same array for every order of the
   names. *)
C14_OrderOfNames ==
    /\ res.op = "multi_groupby" =>
          \A q \in Permutations(Range(res.names)) :
              multi_groupby_mean(assy, q, res.arg) = Returned
    /\ res.op = "multi_dim_apply" =>
          \A q \in Permutations(Range(res.names)) :
              multi_dim_apply(assy, q, res.arg) = Returned

\* the groups of a reduced array: the key of every element, by the name of
\* the coordinate, with the values of the element
GroupsOf(arr, names) ==
    LET k == AxisOf(arr, names[1])
    IN  {[key |-> [n \in Range(names) |-> CoordOf(arr, n).values[j]],
          values |-> SliceAt(arr, k, j)] : j \in 1..arr.shape[k]}

(* C14, amended: multi_dim_apply(names, f) returns the same array for every
   order of the names.  multi_groupby(names).mean returns, for every order
   of the names, an array of the same dimensions, coordinates and levels
   and of the same groups, every key with the same mean; the groups come in
   the sorted order of their keys, the values of a key taken in the order
   of the names, so that two orders of the names may give the groups in a
   different order. *)
C14_OrderOfNamesGroups ==
    /\ res.op = "multi_dim_apply" =>
          \A q \in Permutations(Range(res.names)) :
              multi_dim_apply(assy, q, res.arg) = Returned
    /\ res.op = "multi_groupby" =>
          \A q \in Permutations(Range(res.names)) :
              LET other == multi_groupby_mean(assy, q, res.arg)
              IN  /\ other.dims = Returned.dims
                  /\ other.shape = Returned.shape
                  /\ other.levels = Returned.levels
                  /\ DeclaredNames(other) = DeclaredNames(Returned)
                  /\ GroupsOf(other, q) = GroupsOf(Returned, res.names)
                  /\ AscendingKeys(KeysAlong(other, q))

\* the levels were named in the order down, up, and the groups come in
\* another order than for up, down
C14_Witness ==
    /\ res.op = "multi_groupby"
    /\ res.names = <<"down", "up">>
    /\ Returned # multi_groupby_mean(assy, <<"up", "down">>, res.arg)

----------------------------------------------------------------------------
(* C15: sel(level=value) on a dimension that has several levels returns the
   sub-array of exactly the elements that have the value on the level,
   whichever level it is, when there is such an element; when there is none
   it raises KeyError and returns nothing, never an empty array. *)
C15_SelByLevel ==
    res.op = "sel" =>
        LET name == res.names[1]
            matching == Matching(assy, name, res.arg)
        IN  /\ Len(assy.levels[DimOfCoord(assy, name)]) >= 2
            /\ matching = {} <=> res.outcome = "KeyError"
            /\ matching = {} => res.value = <<>>
            /\ matching # {} =>
                  /\ res.outcome = "ok"
                  /\ SelectsExactly(assy, name, res.arg, Returned)

\* test_incorrect_coord: a value that the second level has not
C15_Witness ==
    /\ res.op = "sel"
    /\ assy = SingleElement
    /\ res.names = <<"coordB">>
    /\ res.outcome = "KeyError"

----------------------------------------------------------------------------
\* the names of s come in the order in which they are declared
InDeclaredOrder(arr, s) ==
    \A i, j \in DOMAIN s :
        i < j => PlaceOf(DeclaredNames(arr), s[i]) < PlaceOf(DeclaredNames(arr), s[j])

(* C16: gather_indexes makes the several coordinates of a dimension its
   levels, in the order of their declaration and not in that of the
   alphabet, and get_levels returns them so.  Gathering a gathered array
   again, wrapping an array in a new DataArray and the outer alignment of
   two arrays leave the list of levels as it is. *)
C16_LevelsInDeclaredOrder ==
    /\ res.op = "gather_indexes" =>
          /\ \A d \in Range(assy.dims) :
                LET several == {c \in CoordsOn(assy, d) : c # d}
                IN  /\ Range(Returned.levels[d])
                          = IF Cardinality(several) >= 2 THEN several ELSE {}
                    /\ Len(Returned.levels[d]) = Cardinality(Range(Returned.levels[d]))
                    /\ InDeclaredOrder(assy, Returned.levels[d])
          /\ get_levels(gather_indexes(Returned)) = get_levels(Returned)
          /\ get_levels(Wrap(Returned)) = get_levels(Returned)
          /\ assy = TwoCoordArray => get_levels(Returned) = <<"up", "down">>
    /\ res.op = "DataArray" => get_levels(Returned) = get_levels(assy)
    /\ res.op = "align" =>
          /\ get_levels(Returned) = get_levels(assy)
          /\ get_levels(res.other[1]) = get_levels(assy)

\* test_wrap_dataarray: the levels of the DataArray were gathered
C16_Witness ==
    /\ res.op = "gather_indexes"
    /\ assy = TwoCoordArray
    /\ get_levels(assy) = <<>>
    /\ get_levels(Returned) = <<"up", "down">>

----------------------------------------------------------------------------
(* C17: reset_index(names) removes the names, and nothing else, from the
   levels of their dimension; the levels that stay keep their order, and
   none stays when all were named.  The data of the array and the
   coordinates, those of the former levels among them, are as before. *)
C17_ResetLevels ==
    res.op = "reset_index" =>
        LET names == Range(res.names)
        IN  /\ Range(get_levels(Returned)) = Range(get_levels(assy)) \ names
            /\ Len(get_levels(Returned)) = Len(get_levels(assy)) - Cardinality(names)
            /\ InDeclaredOrder(assy, get_levels(Returned))
            /\ names = Range(get_levels(assy)) => get_levels(Returned) = <<>>
            /\ Returned.data = assy.data
            /\ Returned.coords = assy.coords
            /\ Returned.dims = assy.dims
            /\ Returned.shape = assy.shape

\* test_reset_index: both levels were reset
C17_Witness ==
    /\ res.op = "reset_index"
    /\ assy = TwoCoord
    /\ res.names = <<"down", "up">>
    /\ get_levels(Returned) = <<>>

----------------------------------------------------------------------------
\* the threads that are in a call of append
Appending == {t \in Threads : th[t].op = "append" /\ th[t].pc \notin {"idle", "done"}}

\* the calls of append the threads started
AppendsStarted == Cardinality({t \in Threads : th[t].appends >= 1})

\* one thread called append once, and no other thread ever called it
SingleAppend ==
    /\ AppendsStarted <= 1
    /\ \A t \in Threads : th[t].appends <= 1

\* the records of the backing file of a catalog, as a loader reads them
FileRecords(name) == Range(load_lookup(name, files[name]))

\* the records of a catalog in memory
MemoryRecords(name) == Range(DictGet(Loaded, name))

(* C21 as stated: a successful append adds the record to the catalog in
   memory before it writes the backing file, and invalidates the cache
   last; so at no point of an append, none other running, does the backing
   file of a catalog hold a record that the catalog in memory lacks. *)
C21_MemoryBeforeFile ==
    SingleAppend =>
        \A i \in DOMAIN CatalogNames :
            FileRecords(CatalogNames[i]) \subseteq MemoryRecords(CatalogNames[i])

----------------------------------------------------------------------------
\* the cache of the merged view is empty or the concatenation of the
\* catalogs in memory
CacheCoherent == concat_catalogs \in {<<>>, <<concat(catalogs)>>}

\* the last call was a read
LastCallRead == ret.op \in ReadOps

(* C22: when the calls do not overlap, in every state the cache of the
   merged view is empty or the concatenation of the catalogs in memory.  A
   read leaves the catalogs and their backing files as they are and returns
   what the merged catalogs determine, so that two reads with no append
   between them return the same. *)
C22_CacheCoherence ==
    /\ [](/\ CacheCoherent
          /\ LastCallRead =>
                /\ concat_catalogs = <<concat(Loaded)>>
                /\ Outcome(ret.outcome, ret.value) = ReadAlone(ret.op, ret.identifier))
    /\ [][ret'.op \in ReadOps =>
             /\ files' = files
             /\ get_catalogs(catalogs', files') = Loaded]_vars

\* a read returned from a merged view that holds an appended row: the
\* catalogs, which start with the same rows, differ in length
C22_Witness ==
    /\ LastCallRead
    /\ ret.outcome = "ok"
    /\ ret.value # <<>>
    /\ concat_catalogs # <<>>
    /\ Len(DictGet(catalogs, CatalogNames[1])) # Len(DictGet(catalogs, CatalogNames[2]))

----------------------------------------------------------------------------
\* a read of one thread and an append of another thread have both completed,
\* the append with success
ReadAndAppendDone ==
    \E t, u \in Threads :
        /\ t # u
        /\ th[t].pc = "done" /\ th[t].op \in ReadOps
        /\ th[u].pc = "done" /\ th[u].op = "append" /\ th[u].outcome = "ok"

(* C23 as stated: when a read and an append of two threads of the process
   have both completed, however their statements interleaved, the cache of
   the merged view is empty or the merge of the current catalogs; it is
   never a merged view of before the append. *)
C23_NoStaleCache == ReadAndAppendDone => CacheCoherent

====
